---- MODULE Spec2Model ----
(***************************************************************************)
(* Business licensing requirements matching engine (MatchingEngine) and    *)
(* the catalog it is loaded with (LicensingDocumentProcessor); the routes  *)
(* of the server that share one engine instance (ServerSpec), the report   *)
(* generator (ReportSpec) and the rate limiter (LimiterSpec).              *)
(*                                                                         *)
(* JavaScript values of the profile fields are tagged records: t is the    *)
(* result of typeof ("undefined", "object" for null, "number", "string"),  *)
(* v the number and s the string.  Profiles are JSON values, so a number   *)
(* is always a real number.  Catalog objects are TLA+ records whose        *)
(* DOMAIN is the set of properties the object has: a property that is      *)
(* absent in the JavaScript object is absent from the DOMAIN.  The Hebrew   *)
(* authority names are replaced by ASCII labels (one label per distinct    *)
(* name); titles and descriptions, which the engine only copies, are left  *)
(* out.                                                                    *)
(***************************************************************************)
EXTENDS Integers, Sequences, FiniteSets, TLC

VARIABLES
    requirementsData,   \* the engine's loaded catalog (this.requirementsData)
    businessProfile,    \* the profile of the call of findApplicableRequirements that has just run
    outcome,            \* what the engine operation that has just run returned or threw
    evaluatedRules,     \* the rules whose condition that call evaluated
    call,               \* the operation or request that has just run, with its arguments
    response,           \* the HTTP response a route or middleware sent
    firstAnswer,        \* an earlier call of findApplicableRequirements and its outcome
    requestCounts,      \* the rate limiter's Map: client ip -> {count, firstRequest}
    now,                \* Date.now(), in milliseconds
    requestLog          \* per client ip: the requests of its current window that were seen and passed on

engineVars == <<requirementsData, businessProfile, outcome, evaluatedRules>>
serverVars == <<call, response, firstAnswer>>
limiterVars == <<requestCounts, now, requestLog>>

vars == <<requirementsData, businessProfile, outcome, evaluatedRules,
          call, response, firstAnswer, requestCounts, now, requestLog>>

(***************************************************************************)
(* Bounds                                                                  *)
(***************************************************************************)
\* number of extra unconditional requirements in the largest generated catalog
MaxExtra == 1
\* requests the busy client sends beyond the limit before it waits for a new window
MaxOver == 2
\* requests the quiet client sends before it waits for a new window
MaxQuiet == 2
\* the clock stops after this many windows and this many milliseconds into a window
MaxWindows == 1
MaxOffset == 1

(***************************************************************************)
(* JavaScript values                                                       *)
(***************************************************************************)
Undefined == [t |-> "undefined", v |-> 0, s |-> ""]
Null == [t |-> "object", v |-> 0, s |-> ""]
Num(n) == [t |-> "number", v |-> n, s |-> ""]
Str(x) == [t |-> "string", v |-> 0, s |-> x]

\* a flag namespace of the profile (services, kitchenFeatures,
\* operationalHours): present or not, and the set of flags that are true in it
Namespace(flags) == [present |-> TRUE, on |-> flags]
NoNamespace == [present |-> FALSE, on |-> {}]

ServiceFlags == {"alcoholService", "deliveryService", "takeaway", "liveMusic", "outdoorSeating"}
KitchenFlags == {"gasUsage", "smokingArea", "meatHandling", "dairyProducts"}
HoursFlags == {"lateNightOperation", "twentyFourSeven"}

(***************************************************************************)
(* The catalog: backend/scripts/process-licensing-document.js              *)
(***************************************************************************)
LocalAuthority == "local_authority"
IsraelPolice == "israel_police"
MinistryOfHealth == "ministry_of_health"
FireAndRescue == "fire_and_rescue"

NoConditions == <<>>

extractGeneralRequirements ==
    << [requirementId |-> "GEN-001", authority |-> LocalAuthority, mandatory |-> TRUE,
        applicableBusinessTypes |-> <<"restaurant", "cafe", "fast_food", "delivery_only", "catering", "bar_pub">>,
        conditions |-> NoConditions],
       [requirementId |-> "GEN-002", authority |-> LocalAuthority, mandatory |-> TRUE,
        applicableBusinessTypes |-> <<"restaurant", "cafe", "fast_food", "delivery_only", "catering", "bar_pub">>,
        conditions |-> NoConditions],
       [requirementId |-> "GEN-003", authority |-> LocalAuthority, mandatory |-> FALSE,
        applicableBusinessTypes |-> <<"restaurant", "cafe", "catering">>,
        conditions |-> [minSeatingCapacity |-> 20]] >>

extractPoliceRequirements ==
    << [requirementId |-> "POL-001", authority |-> IsraelPolice, mandatory |-> TRUE,
        applicableBusinessTypes |-> <<"restaurant", "cafe", "bar_pub">>,
        conditions |-> [minSeatingCapacity |-> 10]],
       [requirementId |-> "POL-002", authority |-> IsraelPolice, mandatory |-> TRUE,
        applicableBusinessTypes |-> <<"restaurant", "bar_pub">>,
        conditions |-> [requiredServices |-> <<"alcoholService">>]],
       [requirementId |-> "POL-003", authority |-> IsraelPolice, mandatory |-> TRUE,
        applicableBusinessTypes |-> <<"restaurant", "bar_pub">>,
        conditions |-> [requiredServices |-> <<"liveMusic">>]] >>

extractHealthRequirements ==
    << [requirementId |-> "MOH-001", authority |-> MinistryOfHealth, mandatory |-> TRUE,
        applicableBusinessTypes |-> <<"restaurant", "cafe", "fast_food", "delivery_only", "catering">>,
        conditions |-> NoConditions],
       [requirementId |-> "MOH-002", authority |-> MinistryOfHealth, mandatory |-> TRUE,
        applicableBusinessTypes |-> <<"restaurant", "cafe", "fast_food", "delivery_only", "catering">>,
        conditions |-> NoConditions],
       [requirementId |-> "MOH-003", authority |-> MinistryOfHealth, mandatory |-> TRUE,
        applicableBusinessTypes |-> <<"restaurant", "cafe", "fast_food", "catering">>,
        conditions |-> [minSeatingCapacity |-> 15]],
       [requirementId |-> "MOH-004", authority |-> MinistryOfHealth, mandatory |-> TRUE,
        applicableBusinessTypes |-> <<"restaurant", "fast_food", "catering">>,
        conditions |-> [requiredServices |-> <<"meatHandling">>]] >>

extractFireRequirements ==
    << [requirementId |-> "FIRE-001", authority |-> FireAndRescue, mandatory |-> TRUE,
        applicableBusinessTypes |-> <<"restaurant", "cafe", "fast_food", "bar_pub">>,
        conditions |-> [minFloorArea |-> 50]],
       [requirementId |-> "FIRE-002", authority |-> FireAndRescue, mandatory |-> TRUE,
        applicableBusinessTypes |-> <<"restaurant", "fast_food", "catering">>,
        conditions |-> [requiredServices |-> <<"gasUsage">>, minFloorArea |-> 100]],
       [requirementId |-> "FIRE-003", authority |-> FireAndRescue, mandatory |-> TRUE,
        applicableBusinessTypes |-> <<"restaurant", "cafe", "bar_pub">>,
        conditions |-> [minSeatingCapacity |-> 30]] >>

extractRegulatoryRequirements ==
    [generalRequirements |-> extractGeneralRequirements,
     policeRequirements |-> extractPoliceRequirements,
     healthMinistryRequirements |-> extractHealthRequirements,
     fireAuthorityRequirements |-> extractFireRequirements]

Rule001 ==
    [ruleId |-> "RULE-001",
     condition |-> [businessType |-> "restaurant", seatingCapacity |-> [min |-> 1]],
     applicableRequirements |-> <<"GEN-001", "GEN-002", "MOH-001", "MOH-002", "FIRE-001">>]

Rule002 ==
    [ruleId |-> "RULE-002",
     condition |-> [businessType |-> "restaurant", seatingCapacity |-> [min |-> 20],
                    hasService |-> <<"alcoholService">>],
     applicableRequirements |-> <<"GEN-001", "GEN-002", "GEN-003", "POL-001", "POL-002",
                                  "MOH-001", "MOH-002", "MOH-003", "FIRE-001", "FIRE-003">>]

Rule003 ==
    [ruleId |-> "RULE-003",
     condition |-> [businessType |-> "cafe", seatingCapacity |-> [min |-> 1, max |-> 15]],
     applicableRequirements |-> <<"GEN-001", "GEN-002", "MOH-001", "MOH-002">>]

Rule004 ==
    [ruleId |-> "RULE-004",
     condition |-> [businessType |-> "fast_food", hasService |-> <<"meatHandling">>],
     applicableRequirements |-> <<"GEN-001", "GEN-002", "MOH-001", "MOH-002", "MOH-004", "FIRE-001">>]

Rule005 ==
    [ruleId |-> "RULE-005",
     condition |-> [floorArea |-> [min |-> 100], hasService |-> <<"gasUsage">>],
     applicableRequirements |-> <<"FIRE-002">>]

\* as createLicensingMapping, but RULE-003 also lists the police approval POL-001
createLicensingMapping_Rule3Police ==
    [rules |-> <<Rule001, Rule002,
                 [Rule003 EXCEPT !.applicableRequirements = Append(@, "POL-001")],
                 Rule004, Rule005>>]

createLicensingMapping ==
    [rules |-> <<Rule001, Rule002, Rule003, Rule004, Rule005>>]

\* the document written to data/licensing-requirements.json and loaded by the engine
extractStructuredData ==
    [regulatoryRequirements |-> extractRegulatoryRequirements,
     businessLicensingMapping |-> createLicensingMapping]

(***************************************************************************)
(* Catalogs the engine can be loaded with.  Besides the repository's      *)
(* catalog: catalogs with clauses the repository's catalog does not use   *)
(* (empty rule condition, max bounds, a bound of 0, a record without      *)
(* conditions, conditions.applicableBusinessTypes, a rule that lists an   *)
(* id twice and an id that is in no list) and n extra unconditional       *)
(* requirements.                                                           *)
(***************************************************************************)
AllBusinessTypes ==
    <<"restaurant", "cafe", "fast_food", "delivery_only", "catering", "food_truck", "bar_pub", "hotel_restaurant">>

ExtraIds == <<"EXT-001", "EXT-002", "EXT-003", "EXT-004">>

ExtraRequirements(n) ==
    [i \in 1..n |->
        [requirementId |-> ExtraIds[i], authority |-> LocalAuthority, mandatory |-> (i % 2 = 0),
         applicableBusinessTypes |-> AllBusinessTypes, conditions |-> NoConditions]]

VariantCatalog(n) ==
    [regulatoryRequirements |->
        [generalRequirements |->
            << [requirementId |-> "VAR-001", authority |-> LocalAuthority, mandatory |-> TRUE,
                applicableBusinessTypes |-> AllBusinessTypes],
               [requirementId |-> "VAR-002", authority |-> LocalAuthority, mandatory |-> FALSE,
                applicableBusinessTypes |-> AllBusinessTypes,
                conditions |-> [maxSeatingCapacity |-> 12]] >> \o ExtraRequirements(n),
         policeRequirements |->
            << [requirementId |-> "VAR-003", authority |-> IsraelPolice, mandatory |-> TRUE,
                applicableBusinessTypes |-> <<"restaurant", "bar_pub">>,
                conditions |-> [applicableBusinessTypes |-> <<"restaurant", "bar_pub">>]] >>,
         healthMinistryRequirements |-> << >>,
         fireAuthorityRequirements |->
            << [requirementId |-> "VAR-004", authority |-> FireAndRescue, mandatory |-> TRUE,
                applicableBusinessTypes |-> AllBusinessTypes,
                conditions |-> [maxFloorArea |-> 50, requiredServices |-> << >>]] >>],
     businessLicensingMapping |->
        [rules |-> <<
            [ruleId |-> "VRULE-001",
             condition |-> [seatingCapacity |-> [min |-> 0, max |-> 15], floorArea |-> [max |-> 100]],
             applicableRequirements |-> <<"VAR-002", "VAR-004", "VAR-002">>],
            [ruleId |-> "VRULE-002",
             condition |-> [hasService |-> <<"lateNightOperation">>],
             applicableRequirements |-> <<"VAR-003", "VAR-404", "VAR-001">>],
            [ruleId |-> "VRULE-003",
             condition |-> [businessType |-> "catering"],
             applicableRequirements |-> <<"VAR-001">> \o SubSeq(ExtraIds, 1, n)] >>]]

Catalogs == {extractStructuredData} \cup {VariantCatalog(n) : n \in 0..MaxExtra}

(***************************************************************************)
(* The condition evaluator: backend/services/matching-engine.js           *)
(***************************************************************************)
Has(obj, key) == key \in DOMAIN obj

\* a < n for a profile value a and a number n of the catalog (ToNumber of
\* undefined and of a non-numeric string is NaN, of null is 0)
JsLess(a, n) ==
    CASE a.t = "number" -> a.v < n
      [] a.t = "object" -> 0 < n
      [] OTHER -> FALSE

\* a > n, likewise
JsGreater(a, n) ==
    CASE a.t = "number" -> a.v > n
      [] a.t = "object" -> 0 > n
      [] OTHER -> FALSE

\* as hasService, but the flag is looked up in profile.services only
hasService_ServicesOnly(profile, service) ==
    profile.services.present /\ service \in profile.services.on

\* (profile.services && profile.services[service]) || (profile.kitchenFeatures && ...) || ...
hasService(profile, service) ==
    \/ profile.services.present /\ service \in profile.services.on
    \/ profile.kitchenFeatures.present /\ service \in profile.kitchenFeatures.on
    \/ profile.operationalHours.present /\ service \in profile.operationalHours.on

\* as withinRange, but a bound is read by its truthiness: a bound of 0 counts as absent
withinRange_TruthyBounds(value, range) ==
    /\ ~(Has(range, "min") /\ range.min # 0 /\ JsLess(value, range.min))
    /\ ~(Has(range, "max") /\ range.max # 0 /\ JsGreater(value, range.max))

\* the range check of one field of a rule condition: {min?, max?}
withinRange(value, range) ==
    /\ ~(Has(range, "min") /\ JsLess(value, range.min))
    /\ ~(Has(range, "max") /\ JsGreater(value, range.max))

matchesRuleCondition(profile, condition) ==
    /\ ~(Has(condition, "businessType") /\ condition.businessType # ""
          /\ profile.businessType # Str(condition.businessType))
    /\ Has(condition, "seatingCapacity") =>
          withinRange(profile.seatingCapacity, condition.seatingCapacity)
    /\ Has(condition, "floorArea") =>
          withinRange(profile.floorArea, condition.floorArea)
    /\ (Has(condition, "hasService") /\ Len(condition.hasService) > 0) =>
          \A i \in DOMAIN condition.hasService : hasService(profile, condition.hasService[i])

\* Array.prototype.includes on a list of strings, for a profile value
Includes(list, value) ==
    \E i \in DOMAIN list : value = Str(list[i])

matchesRequirementConditions(profile, requirement) ==
    \/ ~Has(requirement, "conditions")
    \/ DOMAIN requirement.conditions = {}
    \/ LET conditions == requirement.conditions IN
        /\ ~(Has(conditions, "minSeatingCapacity")
              /\ JsLess(profile.seatingCapacity, conditions.minSeatingCapacity))
        /\ ~(Has(conditions, "maxSeatingCapacity")
              /\ JsGreater(profile.seatingCapacity, conditions.maxSeatingCapacity))
        /\ ~(Has(conditions, "minFloorArea")
              /\ JsLess(profile.floorArea, conditions.minFloorArea))
        /\ ~(Has(conditions, "maxFloorArea")
              /\ JsGreater(profile.floorArea, conditions.maxFloorArea))
        /\ (Has(conditions, "requiredServices") /\ Len(conditions.requiredServices) > 0) =>
              \A i \in DOMAIN conditions.requiredServices :
                  hasService(profile, conditions.requiredServices[i])
        /\ ~(Has(conditions, "applicableBusinessTypes")
              /\ ~Includes(conditions.applicableBusinessTypes, profile.businessType))

(***************************************************************************)
(* The matching engine: backend/services/matching-engine.js               *)
(***************************************************************************)
NoError == ""

validBusinessTypes == AllBusinessTypes

\* as validateBusinessProfile, but a floor area of 0 is let through
validateBusinessProfile_ZeroArea(profile) ==
    CASE profile.businessType \in {Undefined, Null} -> "Missing required field: businessType"
      [] profile.seatingCapacity \in {Undefined, Null} -> "Missing required field: seatingCapacity"
      [] profile.floorArea \in {Undefined, Null} -> "Missing required field: floorArea"
      [] ~Includes(validBusinessTypes, profile.businessType) ->
            "Invalid business type: " \o profile.businessType.s
      [] profile.seatingCapacity.t # "number" \/ profile.seatingCapacity.v < 0 ->
            "Seating capacity must be a non-negative number"
      [] profile.floorArea.t # "number" \/ profile.floorArea.v < 0 ->
            "Floor area must be a positive number"
      [] OTHER -> NoError

\* the message of the Error validateBusinessProfile throws, NoError when it returns
validateBusinessProfile(profile) ==
    CASE profile.businessType \in {Undefined, Null} -> "Missing required field: businessType"
      [] profile.seatingCapacity \in {Undefined, Null} -> "Missing required field: seatingCapacity"
      [] profile.floorArea \in {Undefined, Null} -> "Missing required field: floorArea"
      [] ~Includes(validBusinessTypes, profile.businessType) ->
            "Invalid business type: " \o profile.businessType.s
      [] profile.seatingCapacity.t # "number" \/ profile.seatingCapacity.v < 0 ->
            "Seating capacity must be a non-negative number"
      [] profile.floorArea.t # "number" \/ profile.floorArea.v <= 0 ->
            "Floor area must be a positive number"
      [] OTHER -> NoError

\* { ...req, category: c } for every record of one list of the catalog
withCategory(list, c) ==
    [i \in DOMAIN list |-> ("category" :> c) @@ list[i]]

\* as getAllRequirements, but the fire list is tagged with the name of its catalog list
getAllRequirements_FireTag ==
    LET regulatoryReqs == requirementsData.regulatoryRequirements IN
    withCategory(regulatoryReqs.generalRequirements, "general")
        \o withCategory(regulatoryReqs.policeRequirements, "police")
        \o withCategory(regulatoryReqs.healthMinistryRequirements, "health")
        \o withCategory(regulatoryReqs.fireAuthorityRequirements, "fireAuthority")

getAllRequirements ==
    LET regulatoryReqs == requirementsData.regulatoryRequirements IN
    withCategory(regulatoryReqs.generalRequirements, "general")
        \o withCategory(regulatoryReqs.policeRequirements, "police")
        \o withCategory(regulatoryReqs.healthMinistryRequirements, "health")
        \o withCategory(regulatoryReqs.fireAuthorityRequirements, "fire")

\* Array.prototype.find by requirementId: the index of the first match, 0 when there is none
findIndexById(list, reqId) ==
    LET hits == {i \in DOMAIN list : list[i].requirementId = reqId} IN
    IF hits = {} THEN 0 ELSE CHOOSE i \in hits : \A j \in hits : i <= j

\* as addRequirement, but a later matching rule takes the requirement over
addRequirement_LastRuleWins(applicableRequirements, allRequirements, rule, reqId) ==
    LET found == findIndexById(allRequirements, reqId)
        had == findIndexById(applicableRequirements, reqId)
    IN  IF found = 0 THEN applicableRequirements
        ELSE IF had = 0
             THEN Append(applicableRequirements,
                         ("matchedByRule" :> rule.ruleId) @@ allRequirements[found])
             ELSE [applicableRequirements EXCEPT
                      ![had] = ("matchedByRule" :> rule.ruleId) @@ allRequirements[found]]

\* the body of the loop over rule.applicableRequirements
addRequirement(applicableRequirements, allRequirements, rule, reqId) ==
    LET found == findIndexById(allRequirements, reqId) IN
    IF found # 0 /\ findIndexById(applicableRequirements, reqId) = 0
    THEN Append(applicableRequirements,
                ("matchedByRule" :> rule.ruleId) @@ allRequirements[found])
    ELSE applicableRequirements

RECURSIVE addRequirementsOfRule_StopsAtUnknown(_, _, _, _)
\* as addRequirementsOfRule, but an id that the catalog does not have ends the loop
addRequirementsOfRule_StopsAtUnknown(applicableRequirements, allRequirements, rule, i) ==
    IF i > Len(rule.applicableRequirements) THEN applicableRequirements
    ELSE IF findIndexById(allRequirements, rule.applicableRequirements[i]) = 0
         THEN applicableRequirements
         ELSE addRequirementsOfRule_StopsAtUnknown(
                 addRequirement(applicableRequirements, allRequirements, rule,
                                rule.applicableRequirements[i]),
                 allRequirements, rule, i + 1)

RECURSIVE addRequirementsOfRule(_, _, _, _)
\* for (const reqId of rule.applicableRequirements), from position i on
addRequirementsOfRule(applicableRequirements, allRequirements, rule, i) ==
    IF i > Len(rule.applicableRequirements) THEN applicableRequirements
    ELSE addRequirementsOfRule(
            addRequirement(applicableRequirements, allRequirements, rule,
                           rule.applicableRequirements[i]),
            allRequirements, rule, i + 1)

RECURSIVE collectByRules(_, _, _, _, _)
\* for (const rule of rules), from position k on; evaluated lists the rules
\* whose condition has been evaluated
collectByRules(acc, profile, allRequirements, rules, k) ==
    IF k > Len(rules) THEN acc
    ELSE LET rule == rules[k]
             applicable ==
                IF matchesRuleCondition(profile, rule.condition)
                THEN addRequirementsOfRule(acc.applicable, allRequirements, rule, 1)
                ELSE acc.applicable
         IN  collectByRules([applicable |-> applicable,
                             evaluated |-> Append(acc.evaluated, rule.ruleId)],
                            profile, allRequirements, rules, k + 1)

\* the requirements the rules collect, before the requirement-level filter
collectedRequirements(profile, allRequirements) ==
    collectByRules([applicable |-> << >>, evaluated |-> << >>], profile, allRequirements,
                   requirementsData.businessLicensingMapping.rules, 1)

\* as applyMatchingRules, without the filter on the requirements' own conditions
applyMatchingRules_NoFilter(profile, allRequirements) ==
    collectedRequirements(profile, allRequirements).applicable

applyMatchingRules(profile, allRequirements) ==
    SelectSeq(collectedRequirements(profile, allRequirements).applicable,
              LAMBDA req : matchesRequirementConditions(profile, req))

Categories == {"general", "police", "health", "fire"}

\* req.category || 'general'
categoryOf(req) ==
    IF Has(req, "category") /\ req.category # "" THEN req.category ELSE "general"

\* the entry groupRequirementsByAuthority pushes for one requirement
groupEntry(req) ==
    [requirementId |-> req.requirementId,
     authority |-> req.authority,
     mandatory |-> req.mandatory,
     matchedByRule |-> req.matchedByRule,
     conditions |-> IF Has(req, "conditions") THEN req.conditions ELSE NoConditions]

\* as groupRequirementsByAuthority, but each group is filled from its front (unshift)
groupRequirementsByAuthority_Unshift(requirements) ==
    [c \in Categories |->
        LET members == SelectSeq(requirements, LAMBDA req : categoryOf(req) = c)
        IN  [i \in DOMAIN members |-> groupEntry(members[Len(members) + 1 - i])]]

groupRequirementsByAuthority(requirements) ==
    [c \in Categories |->
        LET members == SelectSeq(requirements, LAMBDA req : categoryOf(req) = c)
        IN  [i \in DOMAIN members |-> groupEntry(members[i])]]

\* as estimateProcessingTime, with the thresholds exclusive
estimateProcessingTime_Exclusive(requirementCount) ==
    IF requirementCount < 3 THEN "1-2 weeks"
    ELSE IF requirementCount < 6 THEN "2-4 weeks"
    ELSE IF requirementCount < 10 THEN "4-8 weeks"
    ELSE "8-12 weeks"

estimateProcessingTime(requirementCount) ==
    IF requirementCount <= 3 THEN "1-2 weeks"
    ELSE IF requirementCount <= 6 THEN "2-4 weeks"
    ELSE IF requirementCount <= 10 THEN "4-8 weeks"
    ELSE "8-12 weeks"

\* as assessComplexityLevel, but one threshold is enough for the lower tier
assessComplexityLevel_EitherThreshold(totalCount, mandatoryCount) ==
    IF totalCount <= 4 \/ mandatoryCount <= 3 THEN "Low"
    ELSE IF totalCount <= 8 \/ mandatoryCount <= 6 THEN "Medium"
    ELSE "High"

assessComplexityLevel(totalCount, mandatoryCount) ==
    IF totalCount <= 4 /\ mandatoryCount <= 3 THEN "Low"
    ELSE IF totalCount <= 8 /\ mandatoryCount <= 6 THEN "Medium"
    ELSE "High"

calculateSummary(requirements) ==
    LET mandatoryCount == Len(SelectSeq(requirements, LAMBDA req : req.mandatory))
        optionalCount == Len(requirements) - mandatoryCount
        authorityCounts ==
            [c \in {categoryOf(requirements[i]) : i \in DOMAIN requirements} |->
                Len(SelectSeq(requirements, LAMBDA req : categoryOf(req) = c))]
    IN  [totalRequirements |-> Len(requirements),
         mandatoryRequirements |-> mandatoryCount,
         optionalRequirements |-> optionalCount,
         authorityCounts |-> authorityCounts,
         estimatedProcessingTime |-> estimateProcessingTime(Len(requirements)),
         complexityLevel |-> assessComplexityLevel(Len(requirements), mandatoryCount)]

\* profile.services || {}
orEmpty(namespace) == IF namespace.present THEN namespace ELSE Namespace({})

sanitizeBusinessProfile(profile) ==
    [businessType |-> profile.businessType,
     seatingCapacity |-> profile.seatingCapacity,
     floorArea |-> profile.floorArea,
     services |-> orEmpty(profile.services),
     kitchenFeatures |-> orEmpty(profile.kitchenFeatures),
     operationalHours |-> orEmpty(profile.operationalHours)]

Thrown(message) == [status |-> "thrown", error |-> message]
Returned(value) == [status |-> "returned", value |-> value]

\* as findApplicableRequirements, but an empty match is reported as an error
findApplicableRequirements_ThrowsOnEmpty(profile) ==
    IF validateBusinessProfile(profile) # NoError
    THEN Thrown(validateBusinessProfile(profile))
    ELSE LET applicableRequirements == applyMatchingRules(profile, getAllRequirements) IN
         IF Len(applicableRequirements) = 0
         THEN Thrown("No applicable requirements found")
         ELSE Returned([businessProfile |-> sanitizeBusinessProfile(profile),
                        requirements |-> groupRequirementsByAuthority(applicableRequirements),
                        summary |-> calculateSummary(applicableRequirements)])

\* as findApplicableRequirements, but the result of the previous call is handed out
\* again when that call was for the same business type
findApplicableRequirements_ReusesLast(profile) ==
    IF validateBusinessProfile(profile) # NoError
    THEN Thrown(validateBusinessProfile(profile))
    ELSE IF /\ call.operation = "findApplicableRequirements"
            /\ outcome.status = "returned"
            /\ outcome.value.businessProfile.businessType = profile.businessType
    THEN outcome
    ELSE LET applicableRequirements == applyMatchingRules(profile, getAllRequirements) IN
         Returned([businessProfile |-> sanitizeBusinessProfile(profile),
                   requirements |-> groupRequirementsByAuthority(applicableRequirements),
                   summary |-> calculateSummary(applicableRequirements)])

\* the result of findApplicableRequirements (processedAt, the time of the call, left
\* out), or the error it rethrows
findApplicableRequirements(profile) ==
    IF validateBusinessProfile(profile) # NoError
    THEN Thrown(validateBusinessProfile(profile))
    ELSE LET allRequirements == getAllRequirements
             applicableRequirements == applyMatchingRules(profile, allRequirements)
         IN  Returned([businessProfile |-> sanitizeBusinessProfile(profile),
                       requirements |-> groupRequirementsByAuthority(applicableRequirements),
                       summary |-> calculateSummary(applicableRequirements)])

\* the rules whose condition a call of findApplicableRequirements evaluates
rulesEvaluatedBy(profile) ==
    IF validateBusinessProfile(profile) # NoError THEN << >>
    ELSE collectedRequirements(profile, getAllRequirements).evaluated

(***************************************************************************)
(* Profiles the engine is called with                                      *)
(***************************************************************************)
ValidBusinessTypeValues == {Str(validBusinessTypes[i]) : i \in DOMAIN validBusinessTypes}

BusinessTypeValues ==
    ValidBusinessTypeValues \cup {Str("invalid_type"), Str(""), Undefined, Null}

SeatingValues == {Num(n) : n \in {0, 1, 12, 15, 16, 20, 30, 45, 51}}

FloorValues == {Num(n) : n \in {40, 50, 100, 150, 201}}

BadSeatingValues == {Undefined, Null, Str("abc"), Num(-5), Num(-1)}

BadFloorValues == {Undefined, Null, Str("abc"), Num(-1), Num(0)}

FlagSets ==
    {decisive \cup other :
        decisive \in SUBSET {"alcoholService", "gasUsage", "meatHandling"},
        other \in {{}, {"lateNightOperation"},
                   {"takeaway", "liveMusic", "dairyProducts", "lateNightOperation"}}}

\* the profile with the given fields, each true flag in its own namespace
Profile(businessType, seatingCapacity, floorArea, flags) ==
    [businessType |-> businessType,
     seatingCapacity |-> seatingCapacity,
     floorArea |-> floorArea,
     services |-> Namespace(flags \cap ServiceFlags),
     kitchenFeatures |-> Namespace(flags \cap KitchenFlags),
     operationalHours |-> Namespace(flags \cap HoursFlags)]

\* the same profile sent without the namespaces that hold no true flag
withoutEmptyNamespaces(profile) ==
    [profile EXCEPT
        !.services = IF @.on = {} THEN NoNamespace ELSE @,
        !.kitchenFeatures = IF @.on = {} THEN NoNamespace ELSE @,
        !.operationalHours = IF @.on = {} THEN NoNamespace ELSE @]

\* the example request of API-DOCUMENTATION.md (Match Requirements)
DocumentedRequest ==
    Profile(Str("restaurant"), Num(45), Num(120),
            {"alcoholService", "takeaway", "liveMusic", "gasUsage", "meatHandling",
             "dairyProducts", "lateNightOperation"})

Profiles ==
    {DocumentedRequest} \cup
    {Profile(b, s, f, fl) :
        b \in ValidBusinessTypeValues, s \in SeatingValues, f \in FloorValues, fl \in FlagSets}
    \cup {withoutEmptyNamespaces(Profile(b, s, f, {})) :
        b \in BusinessTypeValues,
        s \in SeatingValues \cup BadSeatingValues,
        f \in FloorValues \cup BadFloorValues}

EmptyProfile == withoutEmptyNamespaces(Profile(Undefined, Undefined, Undefined, {}))

(***************************************************************************)
(* The state machine: an engine instance, loaded once, then called         *)
(***************************************************************************)
NotCalled == [status |-> "none"]

\* no operation has run, no response was sent, no call is remembered
NoCall == [operation |-> "none"]
NoResponse == [status |-> 0, body |-> << >>]
NoAnswer == [status |-> "none"]

\* the rate limiter's Map when the module is loaded: new Map()
EmptyMap == << >>

\* a server that has not been asked anything
ServerIdle ==
    /\ call = NoCall
    /\ response = NoResponse
    /\ firstAnswer = NoAnswer

LimiterIdle ==
    /\ requestCounts = EmptyMap
    /\ now = 0
    /\ requestLog = EmptyMap

\* constructor / loadRequirements: the catalog is read; nothing has been called
Init ==
    /\ requirementsData \in Catalogs
    /\ businessProfile = EmptyProfile
    /\ outcome = NotCalled
    /\ evaluatedRules = << >>
    /\ ServerIdle
    /\ LimiterIdle

\* a caller that holds no result calls findApplicableRequirements(profile); the
\* call runs to its return or its throw
FindApplicableRequirements(profile) ==
    /\ outcome = NotCalled
    /\ businessProfile' = profile
    /\ outcome' = findApplicableRequirements(profile)
    /\ evaluatedRules' = rulesEvaluatedBy(profile)
    /\ UNCHANGED <<requirementsData, serverVars, limiterVars>>

\* the caller has used the result or the error; the engine keeps nothing of the call
Finish ==
    /\ outcome # NotCalled
    /\ businessProfile' = EmptyProfile
    /\ outcome' = NotCalled
    /\ evaluatedRules' = << >>
    /\ UNCHANGED <<requirementsData, serverVars, limiterVars>>

Next ==
    \/ \E profile \in Profiles : FindApplicableRequirements(profile)
    \/ Finish

Spec == Init /\ [][Next]_vars

(***************************************************************************)
(* The engine's other operations                                           *)
(***************************************************************************)
\* profile.services?.alcoholService and the like: the flag is there and true
flagOf(namespace, flag) == namespace.present /\ flag \in namespace.on

\* as getBusinessRecommendations, with the three thresholds inclusive
getBusinessRecommendations_Inclusive(profile) ==
    (IF ~JsLess(profile.seatingCapacity, 50) \/ ~JsLess(profile.floorArea, 200)
     THEN << [type |-> "size_warning", priority |-> "high"] >> ELSE << >>)
    \o (IF flagOf(profile.services, "alcoholService")
        THEN << [type |-> "alcohol_license", priority |-> "high"] >> ELSE << >>)
    \o (IF flagOf(profile.kitchenFeatures, "gasUsage") /\ ~JsLess(profile.floorArea, 100)
        THEN << [type |-> "fire_safety", priority |-> "medium"] >> ELSE << >>)

\* the recommendations, each without its message text
getBusinessRecommendations(profile) ==
    (IF JsGreater(profile.seatingCapacity, 50) \/ JsGreater(profile.floorArea, 200)
     THEN << [type |-> "size_warning", priority |-> "high"] >> ELSE << >>)
    \o (IF flagOf(profile.services, "alcoholService")
        THEN << [type |-> "alcohol_license", priority |-> "high"] >> ELSE << >>)
    \o (IF flagOf(profile.kitchenFeatures, "gasUsage") /\ JsGreater(profile.floorArea, 100)
        THEN << [type |-> "fire_safety", priority |-> "medium"] >> ELSE << >>)

\* as findRelatedRequirements, but the requirement itself is not filtered out
findRelatedRequirements_WithItself(requirement) ==
    LET related == SelectSeq(getAllRequirements,
                             LAMBDA req : req.authority = requirement.authority)
    IN  SubSeq(related, 1, IF Len(related) < 3 THEN Len(related) ELSE 3)

\* the other requirements of the same authority, the first three of them
findRelatedRequirements(requirement) ==
    LET related == SelectSeq(getAllRequirements,
                             LAMBDA req : /\ req.requirementId # requirement.requirementId
                                          /\ req.authority = requirement.authority)
    IN  SubSeq(related, 1, IF Len(related) < 3 THEN Len(related) ELSE 3)

\* the tips, each named by what it says
getProcessingTips(requirement) ==
    (IF requirement.authority = IsraelPolice
     THEN <<"apply at the local police station", "the review may take 2-4 weeks">> ELSE << >>)
    \o (IF requirement.authority = MinistryOfHealth
        THEN <<"an inspector visits the premises", "check water and sanitation systems">> ELSE << >>)
    \o (IF requirement.authority = FireAndRescue
        THEN <<"safety systems are measured professionally", "prepare current architectural plans">>
        ELSE << >>)

\* as getRequirementDetails, but an id that is not found yields null
getRequirementDetails_ReturnsNull(requirementId) ==
    LET allRequirements == getAllRequirements
        found == findIndexById(allRequirements, requirementId)
    IN  IF found = 0 THEN Returned(Null)
        ELSE Returned([relatedRequirements |-> findRelatedRequirements(allRequirements[found]),
                       processingTips |-> getProcessingTips(allRequirements[found])]
                      @@ allRequirements[found])

getRequirementDetails(requirementId) ==
    LET allRequirements == getAllRequirements
        found == findIndexById(allRequirements, requirementId)
    IN  IF found = 0 THEN Thrown("Requirement not found: " \o requirementId)
        ELSE Returned([relatedRequirements |-> findRelatedRequirements(allRequirements[found]),
                       processingTips |-> getProcessingTips(allRequirements[found])]
                      @@ allRequirements[found])

\* as requirementsDataAfterGetAllRequirements, but the category is written to the
\* catalog's own records
requirementsDataAfterGetAllRequirements_TagsInPlace ==
    [requirementsData EXCEPT
        !.regulatoryRequirements.generalRequirements = withCategory(@, "general"),
        !.regulatoryRequirements.policeRequirements = withCategory(@, "police"),
        !.regulatoryRequirements.healthMinistryRequirements = withCategory(@, "health"),
        !.regulatoryRequirements.fireAuthorityRequirements = withCategory(@, "fire")]

\* this.requirementsData once getAllRequirements and its callers have run: the loops
\* push { ...req, category } and { ...requirement, matchedByRule }, new objects, and
\* assign to no record, list or rule of the catalog
requirementsDataAfterGetAllRequirements == requirementsData

(***************************************************************************)
(* The report generator: backend/services/openrouter-service.js.  Texts   *)
(* are replaced by records of the values they are built from; a           *)
(* requirement's title is named by its requirementId.  generatedAt, the   *)
(* time of the call, is left out.                                          *)
(***************************************************************************)
\* what axios.post settles with: a rejection without a response (network error), a
\* rejection with the response of a non-2xx status, or the response of a 2xx status
NetworkError == [settled |-> "rejected", hasResponse |-> FALSE]
HttpError(status) == [settled |-> "rejected", hasResponse |-> TRUE, status |-> status]
HttpOk(data) == [settled |-> "resolved", data |-> data]

\* a reply text: whether /\{[\s\S]*\}/ finds a match in it, whether JSON.parse accepts
\* the match, and the object JSON.parse then yields
PlainText == [t |-> "string", braces |-> FALSE]
BracedText == [t |-> "string", braces |-> TRUE, json |-> FALSE]
JsonText(object) == [t |-> "string", braces |-> TRUE, json |-> TRUE, object |-> object]

Resolved(value) == [settled |-> "resolved", value |-> value, externalCalls |-> 1]
Rejected(error) == [settled |-> "rejected", error |-> error, externalCalls |-> 1]

\* response.data.choices[0].message.content, or the TypeError of reading a property
\* of undefined
aiResponseOf(data) ==
    IF ~Has(data, "choices") THEN Thrown("TypeError")
    ELSE IF Len(data.choices) = 0 THEN Thrown("TypeError")
    ELSE IF ~Has(data.choices[1], "message") THEN Thrown("TypeError")
    ELSE IF ~Has(data.choices[1].message, "content") THEN Returned(Undefined)
    ELSE Returned(data.choices[1].message.content)

\* typeMap[businessType] || businessType
getBusinessTypeInHebrew(businessType) ==
    IF businessType \in {"restaurant", "cafe", "fast_food", "delivery_only", "catering", "bar_pub"}
    THEN "hebrew name of " \o businessType
    ELSE businessType

\* the flattening every builder starts with: the groups in key order, each
\* requirement copied with the group key as its authority
flattenRequirements(matchResult) ==
    LET group(c) == [i \in DOMAIN matchResult.requirements[c] |->
                        [authority |-> c] @@ matchResult.requirements[c][i]]
    IN  group("general") \o group("police") \o group("health") \o group("fire")

buildRequirementsSummaryMarkdown(matchResult) ==
    [totalRequirements |-> matchResult.summary.totalRequirements,
     mandatoryRequirements |-> matchResult.summary.mandatoryRequirements,
     optionalRequirements |-> matchResult.summary.optionalRequirements,
     authorities |-> DOMAIN matchResult.summary.authorityCounts,
     businessMatch |-> Has(matchResult, "businessMatch")]

buildRequirementsByAuthorityMarkdown(matchResult) ==
    LET allRequirements == flattenRequirements(matchResult)
        items(c) == SelectSeq(allRequirements, LAMBDA req : req.authority = c)
        block(c) == IF items(c) = << >> THEN << >>
                    ELSE << [authority |-> c,
                             items |-> [i \in DOMAIN items(c) |->
                                          [title |-> items(c)[i].requirementId,
                                           mandatory |-> items(c)[i].mandatory]]] >>
    IN  block("general") \o block("police") \o block("health") \o block("fire")

buildMandatoryRequirementsMarkdown(matchResult) ==
    LET mandatory == SelectSeq(flattenRequirements(matchResult), LAMBDA req : req.mandatory)
    IN  [i \in DOMAIN mandatory |->
            [title |-> mandatory[i].requirementId, authority |-> mandatory[i].authority]]

extractRecommendations(matchResult) ==
    LET mandatoryCount ==
            Len(SelectSeq(flattenRequirements(matchResult), LAMBDA req : req.mandatory))
    IN  (IF Has(matchResult, "recommendations") THEN matchResult.recommendations ELSE << >>)
        \o <<Str("start the licensing early"), Str("keep in touch with the authorities"),
             Str("prepare the documents in advance")>>
        \o (IF mandatoryCount > 5 THEN <<Str("consider a licensing consultant")>> ELSE << >>)

extractPersonalizedInsights(profile, matchResult) ==
    (IF JsGreater(profile.floorArea, 100)
     THEN << [insight |-> "large floor area", floorArea |-> profile.floorArea] >> ELSE << >>)
    \o (IF JsGreater(profile.seatingCapacity, 50)
        THEN << [insight |-> "high capacity", seatingCapacity |-> profile.seatingCapacity] >>
        ELSE << >>)
    \o (IF flagOf(profile.services, "alcoholService") THEN << [insight |-> "alcohol"] >> ELSE << >>)
    \o (IF flagOf(profile.kitchenFeatures, "meatHandling") THEN << [insight |-> "meat"] >> ELSE << >>)
    \o (IF flagOf(profile.operationalHours, "lateNightOperation")
        THEN << [insight |-> "late night"] >> ELSE << >>)

\* the catalog records whose title includes the word for alcohol, and those whose
\* title includes the word for food or for restaurant
titlesWithAlcohol == {"POL-002"}
titlesWithFood == {"MOH-001", "MOH-002"}

extractCriticalDeadlines(matchResult) ==
    LET allRequirements == flattenRequirements(matchResult)
        ids == {allRequirements[i].requirementId : i \in DOMAIN allRequirements}
    IN  <<"business licence before opening", "mandatory insurance before opening">>
        \o (IF ids \cap titlesWithAlcohol # {} THEN <<"liquor licence 3 months ahead">> ELSE << >>)
        \o (IF ids \cap titlesWithFood # {} THEN <<"food business licence 4-6 weeks ahead">> ELSE << >>)

reportMetadata(matchResult, profile, generatedBy) ==
    [businessProfile |-> profile,
     requirementsSummary |-> matchResult.summary,
     generatedBy |-> generatedBy]

generateFallbackReport(matchResult, profile) ==
    [title |-> [text |-> "licensing requirements report for",
                businessType |-> getBusinessTypeInHebrew(profile.businessType.s)],
     summary |-> [totalRequirements |-> matchResult.summary.totalRequirements,
                  authorities |-> Cardinality(DOMAIN matchResult.summary.authorityCounts)],
     sections |-> << [title |-> "requirements summary",
                      content |-> buildRequirementsSummaryMarkdown(matchResult),
                      priority |-> "high"],
                     [title |-> "requirements by authority",
                      content |-> buildRequirementsByAuthorityMarkdown(matchResult),
                      priority |-> "high"],
                     [title |-> "mandatory requirements",
                      content |-> buildMandatoryRequirementsMarkdown(matchResult),
                      priority |-> "high"] >>,
     recommendations |-> extractRecommendations(matchResult),
     personalizedInsights |-> extractPersonalizedInsights(profile, matchResult),
     totalEstimatedCost |-> "a detailed calculation is needed",
     estimatedTimeframe |-> "2-6 months",
     criticalDeadlines |-> extractCriticalDeadlines(matchResult),
     metadata |-> reportMetadata(matchResult, profile, "System Fallback")]

\* the report parseAIResponse returns, or the TypeError that leaves it: match and
\* substring are called on a reply that is no string
parseAIResponse(aiResponse, matchResult, profile) ==
    IF aiResponse.t # "string" THEN Thrown("TypeError")
    ELSE IF aiResponse.braces /\ aiResponse.json
    THEN LET parsedReport == aiResponse.object IN
         Returned([metadata |-> reportMetadata(matchResult, profile, "OpenRouter AI")]
                  @@ parsedReport
                  @@ [personalizedInsights |-> << >>, criticalDeadlines |-> << >>])
    ELSE Returned(
            [title |-> [text |-> "licensing requirements report for",
                        businessType |-> getBusinessTypeInHebrew(profile.businessType.s)],
             summary |-> [firstCharactersOf |-> aiResponse],
             sections |-> << [title |-> "detailed report", content |-> aiResponse,
                              priority |-> "high"] >>,
             recommendations |-> extractRecommendations(matchResult),
             personalizedInsights |-> extractPersonalizedInsights(profile, matchResult),
             totalEstimatedCost |-> "not available",
             estimatedTimeframe |-> "not available",
             criticalDeadlines |-> extractCriticalDeadlines(matchResult),
             metadata |-> reportMetadata(matchResult, profile, "OpenRouter AI (Fallback)")])

\* as generateReport, but a failure of the external call is passed on to the caller
generateReport_NoFallback(matchResult, profile, external) ==
    IF external.settled = "rejected" THEN Rejected("external call failed")
    ELSE LET aiResponse == aiResponseOf(external.data) IN
         IF aiResponse.status = "thrown" THEN Rejected(aiResponse.error)
         ELSE LET report == parseAIResponse(aiResponse.value, matchResult, profile) IN
              IF report.status = "thrown" THEN Rejected(report.error)
              ELSE Resolved(report.value)

\* what the promise of generateReport settles with, for what axios.post settled with
generateReport(matchResult, profile, external) ==
    IF external.settled = "rejected" THEN Resolved(generateFallbackReport(matchResult, profile))
    ELSE LET aiResponse == aiResponseOf(external.data) IN
         IF aiResponse.status = "thrown"
         THEN Resolved(generateFallbackReport(matchResult, profile))
         ELSE LET report == parseAIResponse(aiResponse.value, matchResult, profile) IN
              IF report.status = "thrown"
              THEN Resolved(generateFallbackReport(matchResult, profile))
              ELSE Resolved(report.value)

\* the fields a reply's JSON object can carry, and the value of each
ReportFields ==
    {"title", "summary", "sections", "recommendations", "totalEstimatedCost", "estimatedTimeframe"}

ReplyValue(field) ==
    CASE field = "sections" ->
            << [title |-> "roadmap", content |-> "markdown", priority |-> "high"] >>
      [] field = "recommendations" -> <<Str("a recommendation of the reply")>>
      [] OTHER -> "the reply's " \o field

ReplyObjects == {[f \in fields |-> ReplyValue(f)] : fields \in SUBSET ReportFields}

ReplyContents == {Null, PlainText, BracedText} \cup {JsonText(object) : object \in ReplyObjects}

ReplyBodies ==
    {<< >>, [choices |-> << >>], [choices |-> << [index |-> 0] >>],
     [choices |-> << [message |-> [role |-> "assistant"]] >>]}
    \cup {[choices |-> << [message |-> [role |-> "assistant", content |-> c]] >>] :
            c \in ReplyContents}

ExternalOutcomes ==
    {NetworkError} \cup {HttpError(status) : status \in {401, 429, 500}}
        \cup {HttpOk(data) : data \in ReplyBodies}

(***************************************************************************)
(* The routes of the server (backend/server.js) and their validation      *)
(* middleware (backend/middleware/validation.js), from the point where    *)
(* Express hands the request to the route                                  *)
(***************************************************************************)
\* the request bodies and engine profiles of this part
RequestBodies ==
    {Profile(Str("restaurant"), Num(45), Num(150),
             {"alcoholService", "gasUsage", "meatHandling", "lateNightOperation"}),
     Profile(Str("restaurant"), Num(12), Num(100), {"lateNightOperation"}),
     Profile(Str("cafe"), Num(12), Num(100), {"gasUsage", "takeaway"}),
     Profile(Str("bar_pub"), Num(30), Num(100), {"alcoholService"}),
     withoutEmptyNamespaces(Profile(Str("catering"), Num(51), Num(201), {})),
     withoutEmptyNamespaces(Profile(Str("invalid_type"), Num(20), Num(100), {})),
     withoutEmptyNamespaces(Profile(Str("restaurant"), Num(-5), Num(100), {})),
     withoutEmptyNamespaces(Profile(Str("restaurant"), Num(20), Num(0), {})),
     withoutEmptyNamespaces(Profile(Undefined, Num(20), Num(100), {}))}

\* the ids a requirement is asked for by, and those of them that match /^[A-Z]+-\d{3}$/
RequirementIds ==
    {"GEN-001", "POL-002", "MOH-001", "FIRE-001", "VAR-001", "VAR-404", "INVALID-999",
     "gen-001", "GEN-1"}

requirementIdPattern == RequirementIds \ {"gen-001", "GEN-1"}

\* the keys the schema knows in each namespace; stripUnknown removes the others
KnownServices == {"alcoholService", "deliveryService", "liveMusic", "outdoorSeating"}
KnownKitchenFeatures == {"gasUsage", "meatHandling"}
KnownOperationalHours == {"lateNightOperation"}

\* businessProfileSchema.validate(body, {abortEarly: false, stripUnknown: true,
\* convert: true}): the fields in error and the cleaned value
businessProfileSchema(body) ==
    [error |->
        {f \in {"businessType"} : ~Includes(validBusinessTypes, body.businessType)}
        \cup {f \in {"seatingCapacity"} :
                ~(body.seatingCapacity.t = "number" /\ body.seatingCapacity.v >= 0
                    /\ body.seatingCapacity.v <= 1000)}
        \cup {f \in {"floorArea"} :
                ~(body.floorArea.t = "number" /\ body.floorArea.v > 0
                    /\ body.floorArea.v <= 5000)},
     value |->
        [businessType |-> body.businessType,
         seatingCapacity |-> body.seatingCapacity,
         floorArea |-> body.floorArea,
         services |-> Namespace(orEmpty(body.services).on \cap KnownServices),
         kitchenFeatures |-> Namespace(orEmpty(body.kitchenFeatures).on \cap KnownKitchenFeatures),
         operationalHours |->
            Namespace(orEmpty(body.operationalHours).on \cap KnownOperationalHours)]]

\* what can follow the opening words of an error message of the engine
MessageTails ==
    {""} \cup {": " \o f : f \in {"businessType", "seatingCapacity", "floorArea"}}
         \cup {": " \o body.businessType.s : body \in RequestBodies}
         \cup {": " \o id : id \in RequirementIds}

\* error.message.includes(words), for the messages the engine throws: each begins
\* with its own opening words
messageIncludes(message, words) == \E tail \in MessageTails : message = words \o tail

Json(status, body) == [status |-> status, body |-> body]

\* what a route callback does: the engine operation's outcome and the response sent
Handled(engineOutcome, sent) == [outcome |-> engineOutcome, response |-> sent]

\* the callback of POST /api/requirements/match, for the body it is handed
requirementsMatchHandler(body) ==
    LET result == findApplicableRequirements(body) IN
    IF result.status = "returned"
    THEN Handled(result,
                 Json(200, [success |-> TRUE,
                            data |-> [recommendations |-> getBusinessRecommendations(body)]
                                        @@ result.value]))
    ELSE IF \/ messageIncludes(result.error, "Missing required field")
            \/ messageIncludes(result.error, "Invalid business type")
    THEN Handled(result, Json(400, [success |-> FALSE, error |-> "Invalid business profile",
                                    details |-> result.error]))
    ELSE Handled(result,
                 Json(500, [success |-> FALSE,
                            error |-> "Internal server error during requirements matching"]))

\* the callback of POST /api/generate-report, for the body it is handed and what the
\* external call settles with
generateReportHandler(body, external) ==
    LET result == findApplicableRequirements(body) IN
    IF result.status = "returned"
    THEN LET requirementsWithRecommendations ==
                [recommendations |-> getBusinessRecommendations(body)] @@ result.value
             report == generateReport(requirementsWithRecommendations, body, external)
         IN  IF report.settled = "resolved"
             THEN Handled(result,
                          Json(200, [success |-> TRUE,
                                     data |-> [report |-> report.value,
                                               rawRequirements |-> requirementsWithRecommendations]]))
             ELSE Handled(result,
                          Json(500, [success |-> FALSE,
                                     error |-> "Internal server error during report generation"]))
    ELSE IF \/ messageIncludes(result.error, "Missing required field")
            \/ messageIncludes(result.error, "Invalid business type")
    THEN Handled(result, Json(400, [success |-> FALSE, error |-> "Invalid business profile",
                                    details |-> result.error]))
    ELSE Handled(result,
                 Json(500, [success |-> FALSE,
                            error |-> "Internal server error during report generation"]))

\* the callback of GET /api/requirements/:requirementId
requirementDetailsHandler(requirementId) ==
    LET result == getRequirementDetails(requirementId) IN
    IF result.status = "returned"
    THEN Handled(result, Json(200, [success |-> TRUE, data |-> result.value]))
    ELSE IF messageIncludes(result.error, "Requirement not found")
    THEN Handled(result, Json(404, [success |-> FALSE, error |-> "Requirement not found",
                                    details |-> result.error]))
    ELSE Handled(result,
                 Json(500, [success |-> FALSE,
                            error |-> "Internal server error while fetching requirement details"]))

\* the middleware validateBusinessProfile in front of a callback: 400, or the callback
\* on the cleaned body
validateBusinessProfileThen(handled, body) ==
    IF businessProfileSchema(body).error # {}
    THEN Handled(NotCalled, Json(400, [success |-> FALSE, error |-> "Validation failed",
                                       details |-> businessProfileSchema(body).error]))
    ELSE handled

\* the middleware validateRequirementId in front of the callback
validateRequirementIdThen(handled, requirementId) ==
    IF requirementId \notin requirementIdPattern
    THEN Handled(NotCalled, Json(400, [success |-> FALSE,
                                       error |-> "Invalid requirement ID format"]))
    ELSE handled

\* the external outcomes the routes are run with
RouteExternalOutcomes ==
    {NetworkError,
     HttpOk([choices |-> << [message |-> [role |-> "assistant", content |-> PlainText]] >>]),
     HttpOk([choices |-> << [message |-> [role |-> "assistant",
                                          content |-> JsonText([f \in ReportFields |-> ReplyValue(f)])]] >>])}

\* the operations that run findApplicableRequirements on their argument
MatchOperations ==
    {"findApplicableRequirements", "POST /api/requirements/match", "POST /api/generate-report",
     "callback of POST /api/requirements/match", "callback of POST /api/generate-report"}

\* what is remembered after an operation: a call of findApplicableRequirements with
\* its outcome, if the observer chooses so and remembers none yet; and, of a
\* remembered call, whether anything but a call with the same profile has run since
remember(operation, argument, engineOutcome, keep) ==
    IF firstAnswer = NoAnswer
    THEN IF keep /\ operation \in MatchOperations /\ engineOutcome # NotCalled
         THEN [status |-> "kept", profile |-> argument, outcome |-> engineOutcome,
               interleaved |-> FALSE]
         ELSE NoAnswer
    ELSE IF operation \in MatchOperations /\ argument = firstAnswer.profile
         THEN firstAnswer
         ELSE [firstAnswer EXCEPT !.interleaved = TRUE]

\* a caller of the shared engine instance calls findApplicableRequirements(profile)
CallFindApplicableRequirements(profile, keep) ==
    /\ call' = [operation |-> "findApplicableRequirements", argument |-> profile]
    /\ outcome' = findApplicableRequirements(profile)
    /\ firstAnswer' = remember("findApplicableRequirements", profile,
                                findApplicableRequirements(profile), keep)
    /\ requirementsData' = requirementsDataAfterGetAllRequirements
    /\ response' = NoResponse
    /\ UNCHANGED <<businessProfile, evaluatedRules, limiterVars>>

CallGetRequirementDetails(requirementId) ==
    /\ call' = [operation |-> "getRequirementDetails", argument |-> requirementId]
    /\ outcome' = getRequirementDetails(requirementId)
    /\ firstAnswer' = remember("getRequirementDetails", requirementId, NotCalled, FALSE)
    /\ requirementsData' = requirementsDataAfterGetAllRequirements
    /\ response' = NoResponse
    /\ UNCHANGED <<businessProfile, evaluatedRules, limiterVars>>

CallGetAllRequirements ==
    /\ call' = [operation |-> "getAllRequirements", argument |-> << >>]
    /\ outcome' = Returned(getAllRequirements)
    /\ firstAnswer' = remember("getAllRequirements", << >>, NotCalled, FALSE)
    /\ requirementsData' = requirementsDataAfterGetAllRequirements
    /\ response' = NoResponse
    /\ UNCHANGED <<businessProfile, evaluatedRules, limiterVars>>

CallGetBusinessRecommendations(profile) ==
    /\ call' = [operation |-> "getBusinessRecommendations", argument |-> profile]
    /\ outcome' = Returned(getBusinessRecommendations(profile))
    /\ firstAnswer' = remember("getBusinessRecommendations", profile, NotCalled, FALSE)
    /\ response' = NoResponse
    /\ UNCHANGED <<requirementsData, businessProfile, evaluatedRules, limiterVars>>

\* the handled request: the engine's outcome inside it and the response are kept
Serve(operation, argument, handled, keep) ==
    /\ call' = [operation |-> operation, argument |-> argument]
    /\ outcome' = handled.outcome
    /\ response' = handled.response
    /\ firstAnswer' = remember(operation, argument, handled.outcome, keep)
    /\ requirementsData' = IF handled.outcome = NotCalled THEN requirementsData
                           ELSE requirementsDataAfterGetAllRequirements
    /\ UNCHANGED <<businessProfile, evaluatedRules, limiterVars>>

\* POST /api/requirements/match: validateBusinessProfile, then the callback
PostRequirementsMatch(body, keep) ==
    Serve("POST /api/requirements/match", businessProfileSchema(body).value,
          validateBusinessProfileThen(
              requirementsMatchHandler(businessProfileSchema(body).value), body),
          keep)

\* POST /api/generate-report: validateBusinessProfile, then the callback
PostGenerateReport(body, external, keep) ==
    Serve("POST /api/generate-report", businessProfileSchema(body).value,
          validateBusinessProfileThen(
              generateReportHandler(businessProfileSchema(body).value, external), body),
          keep)

\* GET /api/requirements/:requirementId: validateRequirementId, then the callback
GetRequirementById(requirementId) ==
    Serve("GET /api/requirements/:requirementId", requirementId,
          validateRequirementIdThen(requirementDetailsHandler(requirementId), requirementId),
          FALSE)

\* the callbacks of the two POST routes on their own, for any body
RequirementsMatchCallback(body, keep) ==
    Serve("callback of POST /api/requirements/match", body,
          requirementsMatchHandler(body), keep)

GenerateReportCallback(body, external, keep) ==
    Serve("callback of POST /api/generate-report", body,
          generateReportHandler(body, external), keep)

ServerNext ==
    \/ \E profile \in RequestBodies, keep \in BOOLEAN :
            CallFindApplicableRequirements(profile, keep)
    \/ \E requirementId \in RequirementIds : CallGetRequirementDetails(requirementId)
    \/ CallGetAllRequirements
    \/ \E profile \in RequestBodies : CallGetBusinessRecommendations(profile)
    \/ \E body \in RequestBodies, keep \in BOOLEAN : PostRequirementsMatch(body, keep)
    \/ \E body \in RequestBodies, external \in RouteExternalOutcomes, keep \in BOOLEAN :
            PostGenerateReport(body, external, keep)
    \/ \E requirementId \in RequirementIds : GetRequirementById(requirementId)
    \/ \E body \in RequestBodies, keep \in BOOLEAN : RequirementsMatchCallback(body, keep)
    \/ \E body \in RequestBodies, external \in RouteExternalOutcomes, keep \in BOOLEAN :
            GenerateReportCallback(body, external, keep)

ServerSpec == Init /\ [][ServerNext]_vars

(***************************************************************************)
(* The report generator called on its own                                  *)
(***************************************************************************)
\* the profiles a MatchResult is made from
ReportProfiles == {body \in RequestBodies : validateBusinessProfile(body) = NoError}

\* a MatchResult of the engine, as the engine returns it or with the route's
\* recommendations attached
MatchResultOf(profile, withRecommendations) ==
    IF withRecommendations
    THEN [recommendations |-> getBusinessRecommendations(profile)]
            @@ findApplicableRequirements(profile).value
    ELSE findApplicableRequirements(profile).value

\* a caller that awaits no report calls generateReport(matchResult, profile); the
\* external call settles as given and the promise settles
GenerateReport(profile, withRecommendations, external) ==
    /\ call = NoCall
    /\ call' = [operation |-> "generateReport", argument |-> profile,
                matchResult |-> MatchResultOf(profile, withRecommendations),
                external |-> external]
    /\ outcome' = generateReport(MatchResultOf(profile, withRecommendations), profile, external)
    /\ response' = NoResponse
    /\ UNCHANGED <<requirementsData, businessProfile, evaluatedRules, firstAnswer, limiterVars>>

\* the caller has taken the report; the service keeps nothing of the call
ReportDelivered ==
    /\ call # NoCall
    /\ call' = NoCall
    /\ outcome' = NotCalled
    /\ response' = NoResponse
    /\ UNCHANGED <<requirementsData, businessProfile, evaluatedRules, firstAnswer, limiterVars>>

ReportNext ==
    \/ \E profile \in ReportProfiles, withRecommendations \in BOOLEAN,
          external \in ExternalOutcomes :
            GenerateReport(profile, withRecommendations, external)
    \/ ReportDelivered

ReportSpec == Init /\ [][ReportNext]_vars

(***************************************************************************)
(* The rate limiter: rateLimit of backend/middleware/validation.js, with  *)
(* its Map requestCounts, under a clock that does not run backwards       *)
(***************************************************************************)
RATE_LIMIT_WINDOW == 15 * 60 * 1000
MAX_REQUESTS_PER_WINDOW == 100

\* the clients: one that sends as many requests as the bounds allow, one that sends few
BusyClient == "10.0.0.1"
QuietClient == "10.0.0.2"
Clients == {BusyClient, QuietClient}

\* the Map after the loop that deletes the entries older than the window
withoutOldEntries(counts, t) ==
    [ip \in {i \in DOMAIN counts : ~(t - counts[i].firstRequest > RATE_LIMIT_WINDOW)} |->
        counts[ip]]

\* as rateLimit, but the count is compared with the limit before it is raised
rateLimit_ChecksBeforeCounting(clientIp, counts, t) ==
    LET kept == withoutOldEntries(counts, t)
        fresh == (clientIp :> [count |-> 1, firstRequest |-> t]) @@ kept
    IN  IF clientIp \notin DOMAIN kept THEN [requestCounts |-> fresh, next |-> TRUE]
        ELSE IF t - kept[clientIp].firstRequest > RATE_LIMIT_WINDOW
        THEN [requestCounts |-> fresh, next |-> TRUE]
        ELSE [requestCounts |-> [kept EXCEPT ![clientIp].count = @ + 1],
              next |-> ~(kept[clientIp].count > MAX_REQUESTS_PER_WINDOW)]

\* as rateLimit, but a refused request moves the start of the window to its own time
rateLimit_RefusalExtendsWindow(clientIp, counts, t) ==
    LET kept == withoutOldEntries(counts, t)
        fresh == (clientIp :> [count |-> 1, firstRequest |-> t]) @@ kept
    IN  IF clientIp \notin DOMAIN kept THEN [requestCounts |-> fresh, next |-> TRUE]
        ELSE IF t - kept[clientIp].firstRequest > RATE_LIMIT_WINDOW
        THEN [requestCounts |-> fresh, next |-> TRUE]
        ELSE LET counted == [kept EXCEPT ![clientIp].count = @ + 1] IN
             IF counted[clientIp].count > MAX_REQUESTS_PER_WINDOW
             THEN [requestCounts |-> [counted EXCEPT ![clientIp].firstRequest = t],
                   next |-> FALSE]
             ELSE [requestCounts |-> counted, next |-> TRUE]

\* rateLimit for a request of clientIp at time t: the Map it leaves, and whether it
\* calls next() or answers 429 itself
rateLimit(clientIp, counts, t) ==
    LET kept == withoutOldEntries(counts, t)
        fresh == (clientIp :> [count |-> 1, firstRequest |-> t]) @@ kept
    IN  IF clientIp \notin DOMAIN kept THEN [requestCounts |-> fresh, next |-> TRUE]
        ELSE IF t - kept[clientIp].firstRequest > RATE_LIMIT_WINDOW
        THEN [requestCounts |-> fresh, next |-> TRUE]
        ELSE LET counted == [kept EXCEPT ![clientIp].count = @ + 1] IN
             [requestCounts |-> counted,
              next |-> ~(counted[clientIp].count > MAX_REQUESTS_PER_WINDOW)]

\* the headers of a request that is passed on
rateLimitHeaders(clientData) ==
    [limit |-> MAX_REQUESTS_PER_WINDOW,
     remaining |-> IF MAX_REQUESTS_PER_WINDOW - clientData.count > 0
                   THEN MAX_REQUESTS_PER_WINDOW - clientData.count ELSE 0,
     reset |-> clientData.firstRequest + RATE_LIMIT_WINDOW]

\* the observer's log of a client: its window opens with its first request and with
\* its first request later than 15 minutes after the window opened; the log counts
\* the requests of the window that were seen and those that were passed on, and keeps
\* the number of requests that were refused in the window before
logged(log, clientIp, t, passedOn) ==
    LET passes == IF passedOn THEN 1 ELSE 0 IN
    IF clientIp \notin DOMAIN log
    THEN (clientIp :> [opened |-> t, seen |-> 1, passed |-> passes, refusedBefore |-> 0]) @@ log
    ELSE IF t - log[clientIp].opened > 15 * 60 * 1000
    THEN (clientIp :> [opened |-> t, seen |-> 1, passed |-> passes,
                       refusedBefore |-> log[clientIp].seen - log[clientIp].passed]) @@ log
    ELSE [log EXCEPT ![clientIp] = [opened |-> @.opened, seen |-> @.seen + 1,
                                    passed |-> @.passed + passes,
                                    refusedBefore |-> @.refusedBefore]]

\* the requests a client sends before it waits for a new window
requestBudget(clientIp) ==
    IF clientIp = BusyClient THEN MAX_REQUESTS_PER_WINDOW + MaxOver ELSE MaxQuiet

\* a request of clientIp reaches the middleware at the current time
RateLimit(clientIp) ==
    LET limited == rateLimit(clientIp, requestCounts, now) IN
    /\ clientIp \in DOMAIN requestCounts =>
          \/ requestCounts[clientIp].count < requestBudget(clientIp)
          \/ now - requestCounts[clientIp].firstRequest > RATE_LIMIT_WINDOW
    /\ requestCounts' = limited.requestCounts
    /\ requestLog' = logged(requestLog, clientIp, now, limited.next)
    /\ call' = [operation |-> "rateLimit", argument |-> clientIp]
    /\ outcome' = [status |-> IF limited.next THEN "next" ELSE "answered"]
    /\ response' = IF limited.next
                   THEN [status |-> 0, body |-> << >>,
                         headers |-> rateLimitHeaders(limited.requestCounts[clientIp])]
                   ELSE Json(429, [success |-> FALSE, error |-> "Rate limit exceeded"])
    /\ UNCHANGED <<requirementsData, businessProfile, evaluatedRules, firstAnswer, now>>

\* time passes: a millisecond, or a whole window
Tick(elapsed) ==
    /\ now + elapsed <= MaxWindows * RATE_LIMIT_WINDOW + MaxOffset
    /\ (now + elapsed) % RATE_LIMIT_WINDOW <= MaxOffset
    /\ now' = now + elapsed
    /\ UNCHANGED <<engineVars, serverVars, requestCounts, requestLog>>

LimiterInit ==
    /\ requirementsData = extractStructuredData
    /\ businessProfile = EmptyProfile
    /\ outcome = NotCalled
    /\ evaluatedRules = << >>
    /\ ServerIdle
    /\ LimiterIdle

LimiterNext ==
    \/ \E clientIp \in Clients : RateLimit(clientIp)
    \/ \E elapsed \in {1, RATE_LIMIT_WINDOW} : Tick(elapsed)

LimiterSpec == LimiterInit /\ [][LimiterNext]_vars

(***************************************************************************)
(* The condition evaluator called on its own: matchesRuleCondition and     *)
(* matchesRequirementConditions are applied to profiles that passed        *)
(* validateBusinessProfile, as applyMatchingRules applies them.            *)
(***************************************************************************)
\* the three namespaces of these profiles: left out, empty, or with a true flag, also
\* a flag kept in a namespace other than the one the forms put it in
EvaluatorNamespaces ==
    {<<NoNamespace, NoNamespace, NoNamespace>>,
     <<Namespace({}), Namespace({}), NoNamespace>>,
     <<Namespace({"alcoholService"}), NoNamespace, NoNamespace>>,
     <<NoNamespace, Namespace({"gasUsage"}), NoNamespace>>,
     <<Namespace({"alcoholService"}), Namespace({"gasUsage"}), NoNamespace>>,
     <<NoNamespace, Namespace({"alcoholService"}), Namespace({"gasUsage"})>>}

EvaluatorProfiles ==
    {[businessType |-> b, seatingCapacity |-> s, floorArea |-> f,
      services |-> ns[1], kitchenFeatures |-> ns[2], operationalHours |-> ns[3]] :
        b \in {Str("restaurant"), Str("cafe")},
        s \in {Num(0), Num(1), Num(20)},
        f \in {Num(50), Num(100)},
        ns \in EvaluatorNamespaces}

\* one clause of a condition object, left out or with one of the values
Clause(key, values) == {<< >>} \cup {key :> v : v \in values}

\* the range objects of rule conditions: no bound, a bound of 0, one or two bounds
SeatingRanges == {<< >>, [min |-> 0], [max |-> 0], [min |-> 1, max |-> 15], [min |-> 20]}
FloorRanges == {[min |-> 100]}
ServiceLists == {<< >>, <<"alcoholService">>, <<"alcoholService", "gasUsage">>}

RuleConditions ==
    {b @@ s @@ f @@ h :
        b \in Clause("businessType", {"restaurant"}),
        s \in Clause("seatingCapacity", SeatingRanges),
        f \in Clause("floorArea", FloorRanges),
        h \in Clause("hasService", ServiceLists)}

\* requirement records without conditions, with empty conditions, and with conditions
RequirementConditions ==
    {a @@ b @@ h :
        a \in Clause("minSeatingCapacity", {0, 20}),
        b \in Clause("maxFloorArea", {50}),
        h \in Clause("requiredServices", ServiceLists)}

ConditionedRequirements ==
    {[requirementId |-> "REQ-001"]}
        \cup {[requirementId |-> "REQ-001", conditions |-> c] : c \in RequirementConditions}

\* applyMatchingRules evaluates one rule's condition for the profile
MatchesRuleCondition(profile, condition) ==
    /\ call = NoCall
    /\ call' = [operation |-> "matchesRuleCondition", profile |-> profile,
                condition |-> condition]
    /\ outcome' = Returned(matchesRuleCondition(profile, condition))
    /\ UNCHANGED <<requirementsData, businessProfile, evaluatedRules, response,
                   firstAnswer, limiterVars>>

\* applyMatchingRules evaluates one requirement's own conditions for the profile
MatchesRequirementConditions(profile, requirement) ==
    /\ call = NoCall
    /\ call' = [operation |-> "matchesRequirementConditions", profile |-> profile,
                requirement |-> requirement]
    /\ outcome' = Returned(matchesRequirementConditions(profile, requirement))
    /\ UNCHANGED <<requirementsData, businessProfile, evaluatedRules, response,
                   firstAnswer, limiterVars>>

\* the loop of applyMatchingRules goes on with the answer
EvaluatorReturn ==
    /\ call # NoCall
    /\ call' = NoCall
    /\ outcome' = NotCalled
    /\ UNCHANGED <<requirementsData, businessProfile, evaluatedRules, response,
                   firstAnswer, limiterVars>>

EvaluatorInit == Init /\ requirementsData = extractStructuredData

EvaluatorNext ==
    \/ \E profile \in EvaluatorProfiles, condition \in RuleConditions :
          MatchesRuleCondition(profile, condition)
    \/ \E profile \in EvaluatorProfiles, requirement \in ConditionedRequirements :
          MatchesRequirementConditions(profile, requirement)
    \/ EvaluatorReturn

EvaluatorSpec == EvaluatorInit /\ [][EvaluatorNext]_vars

(***************************************************************************)
(* groupRequirementsByAuthority called on its own, with requirement lists  *)
(* whose records carry one of the four categories, another category, or    *)
(* none (the method is public; it reads req.category || 'general').        *)
(***************************************************************************)
\* longest requirement list passed to groupRequirementsByAuthority
MaxGrouped == 3

GroupedIds == <<"REQ-001", "REQ-002", "REQ-003", "REQ-004">>

\* the category of a record: left out, one of the four groups, or another string
RecordCategories ==
    {<< >>} \cup {[category |-> c] : c \in Categories \cup {"municipal"}}

\* the record at one position of the list, with its category
GroupedRecord(i, category) ==
    category @@ [requirementId |-> GroupedIds[i], authority |-> LocalAuthority,
                 mandatory |-> TRUE, matchedByRule |-> "RULE-001"]

RequirementLists ==
    UNION {{[i \in 1..n |-> GroupedRecord(i, categories[i])] :
                categories \in [1..n -> RecordCategories]} : n \in 0..MaxGrouped}

GroupRequirementsByAuthority(requirements) ==
    /\ call = NoCall
    /\ call' = [operation |-> "groupRequirementsByAuthority", requirements |-> requirements]
    /\ outcome' = Returned(groupRequirementsByAuthority(requirements))
    /\ UNCHANGED <<requirementsData, businessProfile, evaluatedRules, response,
                   firstAnswer, limiterVars>>

\* the caller takes the grouped object
GroupingReturn ==
    /\ call # NoCall
    /\ call' = NoCall
    /\ outcome' = NotCalled
    /\ UNCHANGED <<requirementsData, businessProfile, evaluatedRules, response,
                   firstAnswer, limiterVars>>

GroupingInit == Init /\ requirementsData = extractStructuredData

GroupingNext ==
    \/ \E requirements \in RequirementLists : GroupRequirementsByAuthority(requirements)
    \/ GroupingReturn

GroupingSpec == GroupingInit /\ [][GroupingNext]_vars

(***************************************************************************)
(* The engine's queries on one instance: getRequirementDetails for every   *)
(* id of the loaded catalog, getBusinessRecommendations for profiles       *)
(* around its thresholds, in any order and between calls of                *)
(* findApplicableRequirements.                                             *)
(***************************************************************************)
\* extra requirements of one authority in the largest catalog of this part
MaxRelatedExtra == 3

QueryCatalogs == Catalogs \cup {VariantCatalog(MaxRelatedExtra)}

\* every id of the loaded catalog, and one that is in no list
QueryIds ==
    {getAllRequirements[i].requirementId : i \in DOMAIN getAllRequirements} \cup {"VAR-404"}

\* validated profiles on both sides of the advisor's thresholds, with and without
\* the namespaces that hold no true flag
AdvisedProfiles ==
    LET profiles == {Profile(Str("restaurant"), s, f, fl) :
                        s \in {Num(50), Num(51)},
                        f \in {Num(100), Num(101), Num(200), Num(201)},
                        fl \in SUBSET {"alcoholService", "gasUsage"}}
    IN  profiles \cup {withoutEmptyNamespaces(profile) : profile \in profiles}

MatchedProfiles ==
    {DocumentedRequest, Profile(Str("cafe"), Num(12), Num(50), {})}

QueryInit ==
    /\ requirementsData \in QueryCatalogs
    /\ businessProfile = EmptyProfile
    /\ outcome = NotCalled
    /\ evaluatedRules = << >>
    /\ ServerIdle
    /\ LimiterIdle

QueryNext ==
    \/ \E requirementId \in QueryIds : CallGetRequirementDetails(requirementId)
    \/ \E profile \in AdvisedProfiles : CallGetBusinessRecommendations(profile)
    \/ \E profile \in MatchedProfiles : CallFindApplicableRequirements(profile, FALSE)

QuerySpec == QueryInit /\ [][QueryNext]_vars

(***************************************************************************)
(* The questionnaire: a submission of BusinessQuestionnaire is converted   *)
(* by App's convertBusinessDataToProfile and posted to /api/generate-report.*)
(* The repository holds two App components: frontend/src/App.tsx, whose    *)
(* profile is flat (servesAlcohol, hasGasUsage, ...), and a second one     *)
(* whose profile has the namespaces of the backend's schema.               *)
(***************************************************************************)
\* the checkboxes of the form: ADDITIONAL_CHARACTERISTICS
ADDITIONAL_CHARACTERISTICS ==
    {"gas_usage", "meat_sales", "alcohol_service", "delivery_service", "outdoor_seating",
     "live_music", "catering", "late_hours", "food_truck", "kosher"}

\* the checkboxes ticked in the submissions of this part
TickedCharacteristics == ADDITIONAL_CHARACTERISTICS \ {"food_truck", "kosher"}

\* the submissions validateForm lets through: both numbers are positive
Submissions ==
    [businessSize : {120}, seatingCapacity : {12, 45},
     additionalCharacteristics : SUBSET TickedCharacteristics]

\* let businessType = 'restaurant'; if ... else if ...
derivedBusinessType(data) ==
    IF "delivery_service" \in data.additionalCharacteristics
        /\ Cardinality(data.additionalCharacteristics) = 1 THEN "delivery_only"
    ELSE IF "catering" \in data.additionalCharacteristics THEN "catering"
    ELSE IF "alcohol_service" \in data.additionalCharacteristics THEN "bar_pub"
    ELSE IF data.seatingCapacity # 0 /\ data.seatingCapacity < 30 THEN "cafe"
    ELSE "restaurant"

\* convertBusinessDataToProfile of frontend/src/App.tsx: the object has the keys
\* servesAlcohol, servesMeat, ... and none of services, kitchenFeatures, operationalHours
convertBusinessDataToProfile(data) ==
    LET ticked(characteristic) == characteristic \in data.additionalCharacteristics IN
    [businessType |-> Str(derivedBusinessType(data)),
     floorArea |-> Num(data.businessSize),
     seatingCapacity |-> Num(data.seatingCapacity),
     servesAlcohol |-> ticked("alcohol_service"),
     servesMeat |-> ticked("meat_sales"),
     preparesFood |-> TRUE,
     lateHours |-> ticked("late_hours"),
     hasGasUsage |-> ticked("gas_usage"),
     hasOutdoorSeating |-> ticked("outdoor_seating"),
     hasLiveMusic |-> ticked("live_music"),
     providesDelivery |-> ticked("delivery_service"),
     providesCatering |-> ticked("catering"),
     isFoodTruck |-> ticked("food_truck"),
     isKosher |-> ticked("kosher"),
     services |-> NoNamespace,
     kitchenFeatures |-> NoNamespace,
     operationalHours |-> NoNamespace]

\* the flags the second App component sets to true, by namespace
structuredFlags(data, flagOfCharacteristic) ==
    {flagOfCharacteristic[c] : c \in data.additionalCharacteristics \cap DOMAIN flagOfCharacteristic}

\* convertBusinessDataToProfile of the second App component: the backend's structure
convertBusinessDataToProfileStructured(data) ==
    [businessType |-> Str(derivedBusinessType(data)),
     floorArea |-> Num(data.businessSize),
     seatingCapacity |-> Num(data.seatingCapacity),
     services |->
        Namespace(structuredFlags(data, [alcohol_service |-> "alcoholService",
                                         delivery_service |-> "deliveryService",
                                         live_music |-> "liveMusic",
                                         outdoor_seating |-> "outdoorSeating"])),
     kitchenFeatures |->
        Namespace(structuredFlags(data, [gas_usage |-> "gasUsage", meat_sales |-> "meatHandling"])),
     operationalHours |->
        Namespace(structuredFlags(data, [late_hours |-> "lateNightOperation"]))]

\* handleQuestionnaireSubmit: the converted profile is posted to /api/generate-report,
\* whose chain is validateBusinessProfile and the route's callback
Submitted(app, data, body, external) ==
    LET value == businessProfileSchema(body).value
        handled == validateBusinessProfileThen(generateReportHandler(value, external), body)
    IN  /\ call = NoCall
        /\ call' = [operation |-> "handleQuestionnaireSubmit", app |-> app, data |-> data,
                    body |-> body, argument |-> value]
        /\ outcome' = handled.outcome
        /\ response' = handled.response
        /\ requirementsData' = IF handled.outcome = NotCalled THEN requirementsData
                               ELSE requirementsDataAfterGetAllRequirements
        /\ UNCHANGED <<businessProfile, evaluatedRules, firstAnswer, limiterVars>>

HandleQuestionnaireSubmit(data, external) ==
    Submitted("frontend/src/App.tsx", data, convertBusinessDataToProfile(data), external)

HandleQuestionnaireSubmitStructured(data, external) ==
    Submitted("App with the backend's structure", data,
              convertBusinessDataToProfileStructured(data), external)

\* the report or the error is shown; the user starts over
HandleStartOver ==
    /\ call # NoCall
    /\ call' = NoCall
    /\ outcome' = NotCalled
    /\ response' = NoResponse
    /\ UNCHANGED <<requirementsData, businessProfile, evaluatedRules, firstAnswer, limiterVars>>

SubmissionInit == Init /\ requirementsData = extractStructuredData

SubmissionNext ==
    \/ \E data \in Submissions : HandleQuestionnaireSubmit(data, NetworkError)
    \/ \E data \in Submissions : HandleQuestionnaireSubmitStructured(data, NetworkError)
    \/ HandleStartOver

SubmissionSpec == SubmissionInit /\ [][SubmissionNext]_vars

(***************************************************************************)
(* What the claims speak of: the call that has just run, and what the      *)
(* catalog says, read off the catalog document itself                      *)
(***************************************************************************)
called == outcome # NotCalled
returned == outcome.status = "returned"
thrown == outcome.status = "thrown"

\* the requirements of the result, group by group
listed ==
    outcome.value.requirements["general"] \o outcome.value.requirements["police"]
        \o outcome.value.requirements["health"] \o outcome.value.requirements["fire"]

listedIds == {listed[i].requirementId : i \in DOMAIN listed}

catalogRules == requirementsData.businessLicensingMapping.rules

Range(list) == {list[i] : i \in DOMAIN list}

catalogRecords ==
    Range(requirementsData.regulatoryRequirements.generalRequirements)
        \cup Range(requirementsData.regulatoryRequirements.policeRequirements)
        \cup Range(requirementsData.regulatoryRequirements.healthMinistryRequirements)
        \cup Range(requirementsData.regulatoryRequirements.fireAuthorityRequirements)

catalogRecord(id) == CHOOSE r \in catalogRecords : r.requirementId = id

\* the flags that are true in the merged capability set of a profile
capabilities(profile) ==
    (IF profile.services.present THEN profile.services.on ELSE {})
        \cup (IF profile.kitchenFeatures.present THEN profile.kitchenFeatures.on ELSE {})
        \cup (IF profile.operationalHours.present THEN profile.operationalHours.on ELSE {})

\* a profile that meets the data model: type in the enum, seats >= 0, area > 0
validProfile(profile) ==
    /\ profile.businessType.t = "string"
    /\ profile.businessType.s \in Range(AllBusinessTypes)
    /\ profile.seatingCapacity.t = "number" /\ profile.seatingCapacity.v >= 0
    /\ profile.floorArea.t = "number" /\ profile.floorArea.v > 0

\* inclusive bounds, an absent bound unconstrained
inBounds(n, range) ==
    /\ "min" \in DOMAIN range => n >= range.min
    /\ "max" \in DOMAIN range => n <= range.max

\* a rule condition holds for a valid profile: every clause present holds
ruleConditionHolds(profile, condition) ==
    /\ "businessType" \in DOMAIN condition => profile.businessType.s = condition.businessType
    /\ "seatingCapacity" \in DOMAIN condition =>
            inBounds(profile.seatingCapacity.v, condition.seatingCapacity)
    /\ "floorArea" \in DOMAIN condition => inBounds(profile.floorArea.v, condition.floorArea)
    /\ "hasService" \in DOMAIN condition => Range(condition.hasService) \subseteq capabilities(profile)

\* the min/max seating, min/max floor area and requiredServices clauses of a
\* requirement's own conditions hold for a valid profile
ownConditionsHold(profile, conditions) ==
    /\ "minSeatingCapacity" \in DOMAIN conditions => profile.seatingCapacity.v >= conditions.minSeatingCapacity
    /\ "maxSeatingCapacity" \in DOMAIN conditions => profile.seatingCapacity.v <= conditions.maxSeatingCapacity
    /\ "minFloorArea" \in DOMAIN conditions => profile.floorArea.v >= conditions.minFloorArea
    /\ "maxFloorArea" \in DOMAIN conditions => profile.floorArea.v <= conditions.maxFloorArea
    /\ "requiredServices" \in DOMAIN conditions =>
            Range(conditions.requiredServices) \subseteq capabilities(profile)

recordConditionsHold(profile, record) ==
    "conditions" \in DOMAIN record => ownConditionsHold(profile, record.conditions)

\* the positions of the rules that hold for the profile and list the id
selectingRules(profile, id) ==
    {k \in DOMAIN catalogRules :
        /\ ruleConditionHolds(profile, catalogRules[k].condition)
        /\ id \in Range(catalogRules[k].applicableRequirements)}

\* the ids of catalog records that some rule holding for the profile lists
ruleSelectedIds(profile) ==
    {r.requirementId : r \in {c \in catalogRecords : selectingRules(profile, c.requirementId) # {}}}

isRepositoryCatalog == requirementsData = extractStructuredData

(***************************************************************************)
(* C1..C10                                                                 *)
(***************************************************************************)

C2_BothFiltersPass ==
    returned =>
        /\ \A i \in DOMAIN listed :
              /\ \E k \in DOMAIN catalogRules :
                    /\ catalogRules[k].ruleId = listed[i].matchedByRule
                    /\ ruleConditionHolds(businessProfile, catalogRules[k].condition)
              /\ ownConditionsHold(businessProfile, listed[i].conditions)
              /\ recordConditionsHold(businessProfile, catalogRecord(listed[i].requirementId))
        /\ \A id \in ruleSelectedIds(businessProfile) :
              ~recordConditionsHold(businessProfile, catalogRecord(id)) => id \notin listedIds
        /\ outcome.value.summary.totalRequirements <=
              Cardinality({id \in ruleSelectedIds(businessProfile) :
                              recordConditionsHold(businessProfile, catalogRecord(id))})

\* a result from which a rule-selected requirement was dropped, and which lists others
C2_Witness ==
    /\ returned
    /\ listedIds # {}
    /\ \E id \in ruleSelectedIds(businessProfile) :
          ~recordConditionsHold(businessProfile, catalogRecord(id))

\* C3: every requirement of a result has the profile's businessType among the
\* applicableBusinessTypes of its catalog record.
C3_BusinessTypeApplicable ==
    returned =>
        \A i \in DOMAIN listed :
            businessProfile.businessType.s
                \in Range(catalogRecord(listed[i].requirementId).applicableBusinessTypes)

\* a cafe with 12 seats and 100 m2 that uses gas is handed FIRE-002, which is not for cafes
C3_FailingInput ==
    /\ returned
    /\ isRepositoryCatalog
    /\ businessProfile.businessType = Str("cafe")
    /\ "FIRE-002" \in listedIds

\* the fields of a profile that break the data model
offendingFields(profile) ==
    {f \in {"businessType"} :
        \/ profile.businessType.t # "string"
        \/ profile.businessType.s \notin Range(AllBusinessTypes)}
    \cup {f \in {"seatingCapacity"} :
        profile.seatingCapacity.t # "number" \/ profile.seatingCapacity.v < 0}
    \cup {f \in {"floorArea"} :
        profile.floorArea.t # "number" \/ profile.floorArea.v <= 0}

\* the fields an error message of the engine identifies
identifiedFields(message, profile) ==
    {f \in {"businessType", "seatingCapacity", "floorArea"} :
        message = "Missing required field: " \o f}
    \cup {f \in {"businessType"} :
        /\ profile.businessType.t = "string"
        /\ message = "Invalid business type: " \o profile.businessType.s}
    \cup {f \in {"seatingCapacity"} : message = "Seating capacity must be a non-negative number"}
    \cup {f \in {"floorArea"} : message = "Floor area must be a positive number"}

\* C4: for a profile that lacks businessType, seatingCapacity or floorArea, has a
\* businessType outside the enum, a negative or non-numeric seatingCapacity, or a
\* floorArea that is non-numeric or <= 0, the call fails with an error that identifies
\* an offending field, returns no result and evaluates no rule.
C4_InvalidProfileRejected ==
    (called /\ offendingFields(businessProfile) # {}) =>
        /\ thrown
        /\ identifiedFields(outcome.error, businessProfile) # {}
        /\ identifiedFields(outcome.error, businessProfile) \subseteq offendingFields(businessProfile)
        /\ evaluatedRules = << >>

\* a call with a floor area of 0 and nothing else wrong has failed on the floor area
C4_Witness ==
    /\ thrown
    /\ offendingFields(businessProfile) = {"floorArea"}
    /\ businessProfile.floorArea = Num(0)
    /\ outcome.error = "Floor area must be a positive number"

RECURSIVE sumOver(_, _)
\* the sum of f over the keys
sumOver(f, keys) ==
    IF keys = {} THEN 0
    ELSE LET k == CHOOSE x \in keys : TRUE IN f[k] + sumOver(f, keys \ {k})

\* C5: in every result mandatoryRequirements + optionalRequirements = totalRequirements,
\* the values of authorityCounts sum to totalRequirements, and totalRequirements is the
\* number of requirements listed across the four groups.
C5_SummaryConsistent ==
    returned =>
        LET summary == outcome.value.summary IN
        /\ summary.mandatoryRequirements + summary.optionalRequirements = summary.totalRequirements
        /\ sumOver(summary.authorityCounts, DOMAIN summary.authorityCounts) = summary.totalRequirements
        /\ summary.totalRequirements = Len(listed)
        /\ DOMAIN outcome.value.requirements = Categories

\* a result with mandatory and optional requirements of three or more authorities
C5_Witness ==
    /\ returned
    /\ outcome.value.summary.mandatoryRequirements > 0
    /\ outcome.value.summary.optionalRequirements > 0
    /\ Cardinality(DOMAIN outcome.value.summary.authorityCounts) >= 3
    /\ outcome.value.requirements["fire"] # << >>

\* C6: complexityLevel is "Low" exactly when totalRequirements <= 4 and
\* mandatoryRequirements <= 3; otherwise "Medium" exactly when totalRequirements <= 8
\* and mandatoryRequirements <= 6; otherwise "High".
C6_ComplexityTiers ==
    returned =>
        LET summary == outcome.value.summary
            low == summary.totalRequirements <= 4 /\ summary.mandatoryRequirements <= 3
            medium == ~low /\ summary.totalRequirements <= 8 /\ summary.mandatoryRequirements <= 6
        IN  /\ summary.complexityLevel = "Low" <=> low
            /\ summary.complexityLevel = "Medium" <=> medium
            /\ summary.complexityLevel = "High" <=> (~low /\ ~medium)
            /\ summary.mandatoryRequirements =
                  Cardinality({i \in DOMAIN listed : listed[i].mandatory})

\* four requirements, all mandatory, are rated "Medium"
C6_Witness ==
    /\ returned
    /\ outcome.value.summary.totalRequirements = 4
    /\ outcome.value.summary.mandatoryRequirements = 4
    /\ outcome.value.summary.complexityLevel = "Medium"

\* eight requirements, seven of them mandatory, are rated "High"
C6_WitnessHigh ==
    /\ returned
    /\ outcome.value.summary.totalRequirements = 8
    /\ outcome.value.summary.mandatoryRequirements = 7
    /\ outcome.value.summary.complexityLevel = "High"

\* C7: estimatedProcessingTime is "1-2 weeks" for 0..3 requirements, "2-4 weeks" for
\* 4..6, "4-8 weeks" for 7..10 and "8-12 weeks" for 11 or more, counted over the
\* requirements that survive the requirement-level filter.
C7_ProcessingTimeSteps ==
    returned =>
        LET surviving == Len(listed)
            time == outcome.value.summary.estimatedProcessingTime
        IN  /\ outcome.value.summary.totalRequirements = surviving
            /\ surviving \in 0..3 => time = "1-2 weeks"
            /\ surviving \in 4..6 => time = "2-4 weeks"
            /\ surviving \in 7..10 => time = "4-8 weeks"
            /\ surviving >= 11 => time = "8-12 weeks"

\* the rules collected 11 requirements, 10 survived, and the estimate is that of 10
C7_Witness ==
    /\ returned
    /\ Cardinality(ruleSelectedIds(businessProfile)) = 11
    /\ Len(listed) = 10
    /\ outcome.value.summary.estimatedProcessingTime = "4-8 weeks"

\* the profile of boundary scenario B
isScenarioB(profile) ==
    /\ profile.businessType = Str("restaurant")
    /\ profile.seatingCapacity = Num(45)
    /\ profile.floorArea = Num(150)
    /\ capabilities(profile) = {"alcoholService", "gasUsage", "meatHandling", "lateNightOperation"}

\* scenario B is answered without MOH-004: no rule that holds for a restaurant lists it
C8_FailingInput ==
    /\ returned /\ isRepositoryCatalog /\ isScenarioB(businessProfile)
    /\ {"POL-002", "FIRE-002"} \subseteq listedIds
    /\ "MOH-004" \notin listedIds
    /\ outcome.value.summary.complexityLevel = "High"

\* C8: for scenario B against the repository's catalog the result includes POL-002,
\* MOH-004 and FIRE-002, and complexityLevel is "High".
C8_ScenarioB ==
    (returned /\ isRepositoryCatalog /\ isScenarioB(businessProfile)) =>
        /\ {"POL-002", "MOH-004", "FIRE-002"} \subseteq listedIds
        /\ outcome.value.summary.complexityLevel = "High"

\* the profile of boundary scenario A
isScenarioA(profile) ==
    /\ profile.businessType = Str("cafe")
    /\ profile.seatingCapacity = Num(12)
    /\ profile.floorArea = Num(40)
    /\ capabilities(profile) = {}

\* C9: for scenario A against the repository's catalog every returned requirement is in
\* the general or health group and has empty conditions, and the police and fire groups
\* are empty.
C9_ScenarioA ==
    (called /\ isRepositoryCatalog /\ isScenarioA(businessProfile)) =>
        /\ returned
        /\ outcome.value.requirements["police"] = << >>
        /\ outcome.value.requirements["fire"] = << >>
        /\ \A c \in {"general", "health"} :
              \A i \in DOMAIN outcome.value.requirements[c] :
                  /\ DOMAIN outcome.value.requirements[c][i].conditions = {}
                  /\ catalogRecord(outcome.value.requirements[c][i].requirementId)
                        \in Range(IF c = "general"
                                  THEN requirementsData.regulatoryRequirements.generalRequirements
                                  ELSE requirementsData.regulatoryRequirements.healthMinistryRequirements)

\* scenario A has been answered with general and health requirements
C9_Witness ==
    /\ returned /\ isRepositoryCatalog /\ isScenarioA(businessProfile)
    /\ outcome.value.requirements["general"] # << >>
    /\ outcome.value.requirements["health"] # << >>

\* no requirement that a rule selects for the profile passes its own conditions
nothingSurvives(profile) ==
    \A id \in ruleSelectedIds(profile) : ~recordConditionsHold(profile, catalogRecord(id))

\* C10: a call with a valid profile never throws, and when no rule holds for the profile
\* or every collected requirement is filtered out, it returns four empty groups, counts
\* of 0, "1-2 weeks" and "Low".
C10_EmptyResultIsSuccess ==
    (called /\ validProfile(businessProfile)) =>
        /\ returned
        /\ nothingSurvives(businessProfile) =>
              /\ \A c \in Categories : outcome.value.requirements[c] = << >>
              /\ outcome.value.summary.totalRequirements = 0
              /\ outcome.value.summary.mandatoryRequirements = 0
              /\ outcome.value.summary.optionalRequirements = 0
              /\ outcome.value.summary.estimatedProcessingTime = "1-2 weeks"
              /\ outcome.value.summary.complexityLevel = "Low"

\* rules selected requirements for a valid profile, all were filtered out, and the call
\* returned the empty result
C10_Witness ==
    /\ returned
    /\ ruleSelectedIds(businessProfile) # {}
    /\ nothingSurvives(businessProfile)
    /\ outcome.value.summary.totalRequirements = 0

\* no rule holds for a valid profile, and the call returned the empty result
C10_WitnessNoRule ==
    /\ returned
    /\ \A k \in DOMAIN catalogRules : ~ruleConditionHolds(businessProfile, catalogRules[k].condition)
    /\ outcome.value.summary.totalRequirements = 0

(***************************************************************************)
(* C11..C20                                                                *)
(***************************************************************************)

\* the ids of the catalog's records
catalogIds == {r.requirementId : r \in catalogRecords}

\* a rule-selected record stays in the result: its own conditions hold, and the
\* applicableBusinessTypes inside its conditions, when there, name the profile's type
survivesFilter(profile, id) ==
    LET record == catalogRecord(id) IN
    /\ recordConditionsHold(profile, record)
    /\ ("conditions" \in DOMAIN record /\ "applicableBusinessTypes" \in DOMAIN record.conditions) =>
            profile.businessType.s \in Range(record.conditions.applicableBusinessTypes)

\* the rules that hold for the profile and list an id the catalog does not have
rulesWithUnknownId(profile) ==
    {k \in DOMAIN catalogRules :
        /\ ruleConditionHolds(profile, catalogRules[k].condition)
        /\ ~(Range(catalogRules[k].applicableRequirements) \subseteq catalogIds)}

\* C11: a call with a valid profile returns even when a rule that holds lists a
\* requirementId the catalog does not have; the result lists exactly the catalog
\* records that a holding rule lists and that pass the filter, each under the first
\* holding rule that lists it, as if the unknown id were not in the rule's list.
C11_UnknownIdSkipped ==
    (called /\ validProfile(businessProfile)) =>
        /\ returned
        /\ listedIds = {id \in ruleSelectedIds(businessProfile) :
                            survivesFilter(businessProfile, id)}
        /\ \A i \in DOMAIN listed :
              \E k \in selectingRules(businessProfile, listed[i].requirementId) :
                  /\ listed[i].matchedByRule = catalogRules[k].ruleId
                  /\ \A l \in selectingRules(businessProfile, listed[i].requirementId) : k <= l

\* a result that lists, under a rule with an unknown id, a record the rule names after
\* the unknown id
C11_Witness ==
    /\ returned
    /\ \E k \in rulesWithUnknownId(businessProfile) :
          \E p, q \in DOMAIN catalogRules[k].applicableRequirements :
              /\ p < q
              /\ catalogRules[k].applicableRequirements[p] \notin catalogIds
              /\ \E i \in DOMAIN listed :
                    /\ listed[i].requirementId = catalogRules[k].applicableRequirements[q]
                    /\ listed[i].matchedByRule = catalogRules[k].ruleId

\* C18: on the repository's catalog, the result for every valid profile whose
\* services.alcoholService is true lists the police alcohol licence POL-002.
C18_AlcoholServiceGetsLicence ==
    (returned /\ isRepositoryCatalog
        /\ businessProfile.services.present
        /\ "alcoholService" \in businessProfile.services.on) =>
            "POL-002" \in listedIds

\* a bar that serves alcohol, 30 seats and 100 m2, gets a result without POL-002
C18_FailingInput ==
    /\ returned
    /\ isRepositoryCatalog
    /\ businessProfile.businessType = Str("bar_pub")
    /\ businessProfile.seatingCapacity = Num(30)
    /\ businessProfile.floorArea = Num(100)
    /\ businessProfile.services = Namespace({"alcoholService"})
    /\ "POL-002" \notin listedIds

\* C19: on the repository's catalog, the result for every valid profile whose
\* services.liveMusic is true lists the police entertainment permit POL-003.
C19_LiveMusicGetsPermit ==
    (returned /\ isRepositoryCatalog
        /\ businessProfile.services.present
        /\ "liveMusic" \in businessProfile.services.on) =>
            "POL-003" \in listedIds

\* a restaurant with live music, 45 seats and 150 m2, gets a result without POL-003
C19_FailingInput ==
    /\ returned
    /\ isRepositoryCatalog
    /\ businessProfile.businessType = Str("restaurant")
    /\ businessProfile.seatingCapacity = Num(45)
    /\ businessProfile.floorArea = Num(150)
    /\ "liveMusic" \in businessProfile.services.on
    /\ "POL-003" \notin listedIds

\* the operation that has just run called findApplicableRequirements
matchRan == call.operation \in MatchOperations /\ outcome # NotCalled

C14_DetailsOrNotFound ==
    /\ (call.operation \in {"getRequirementDetails", "GET /api/requirements/:requirementId"}
            /\ outcome # NotCalled) =>
          IF call.argument \in catalogIds
          THEN /\ outcome.status = "returned"
               /\ outcome.value.requirementId = call.argument
               /\ \A f \in DOMAIN catalogRecord(call.argument) :
                      outcome.value[f] = catalogRecord(call.argument)[f]
          ELSE /\ outcome.status = "thrown"
               /\ outcome.error = "Requirement not found: " \o call.argument
    /\ (call.operation = "GET /api/requirements/:requirementId"
            /\ call.argument \in requirementIdPattern) =>
          IF call.argument \in catalogIds
          THEN /\ response.status = 200
               /\ response.body.success
               /\ response.body.data.requirementId = call.argument
          ELSE /\ response.status = 404
               /\ ~response.body.success

\* the route has answered a well-formed id that the catalog does not have
C14_Witness ==
    /\ call.operation = "GET /api/requirements/:requirementId"
    /\ call.argument \in requirementIdPattern
    /\ call.argument \notin catalogIds
    /\ outcome.status = "thrown"
    /\ response.status = 404

\* the route has answered an id of the catalog with its record
C14_WitnessFound ==
    /\ call.operation = "GET /api/requirements/:requirementId"
    /\ call.argument \in catalogIds
    /\ response.status = 200
    /\ response.body.data.relatedRequirements # << >>

C20_FailingInput ==
    /\ call.operation = "callback of POST /api/requirements/match"
    /\ call.argument.businessType = Str("restaurant")
    /\ call.argument.seatingCapacity = Num(-5)
    /\ outcome.status = "thrown"
    /\ outcome.error = "Seating capacity must be a non-negative number"
    /\ response.status = 500

\* the external call failed: a network error, a non-2xx status, or a reply without
\* choices, without a first choice's message, or without content in it
externalFailure(external) ==
    \/ external.settled = "rejected"
    \/ ~Has(external.data, "choices")
    \/ external.data.choices = << >>
    \/ ~Has(external.data.choices[1], "message")
    \/ ~Has(external.data.choices[1].message, "content")
    \/ external.data.choices[1].message.content = Null

reportRan == call.operation = "generateReport"

\* the MatchResult's requirements, group by group
requirementsOf(matchResult) ==
    matchResult.requirements["general"] \o matchResult.requirements["police"]
        \o matchResult.requirements["health"] \o matchResult.requirements["fire"]

\* C15: generateReport resolves for every MatchResult of the engine, whatever the
\* external call does; when the external call fails, the report is the fallback,
\* marked generatedBy "System Fallback", made of the MatchResult's counts and
\* requirements and of the profile alone, and no second external call is made.
C15_ResolvesWithFallback ==
    reportRan =>
        /\ outcome.settled = "resolved"
        /\ outcome.externalCalls = 1
        /\ externalFailure(call.external) =>
              LET report == outcome.value IN
              /\ report.metadata.generatedBy = "System Fallback"
              /\ report.metadata.businessProfile = call.argument
              /\ report.metadata.requirementsSummary = call.matchResult.summary
              /\ report.summary.totalRequirements = call.matchResult.summary.totalRequirements
              /\ Len(report.sections[3].content) = call.matchResult.summary.mandatoryRequirements
              /\ {report.sections[3].content[i].title : i \in DOMAIN report.sections[3].content}
                    \subseteq {requirementsOf(call.matchResult)[i].requirementId :
                                  i \in DOMAIN requirementsOf(call.matchResult)}
              /\ \A other \in ExternalOutcomes :
                    externalFailure(other) =>
                        generateReport(call.matchResult, call.argument, other).value = report

\* the reply had no content, and the fallback report lists mandatory requirements
C15_Witness ==
    /\ reportRan
    /\ call.external.settled = "resolved"
    /\ externalFailure(call.external)
    /\ outcome.settled = "resolved"
    /\ outcome.value.metadata.generatedBy = "System Fallback"
    /\ Len(outcome.value.sections[3].content) > 0

\* the external call was rejected, and the report is the fallback
C15_WitnessRejected ==
    /\ reportRan
    /\ call.external.settled = "rejected"
    /\ outcome.settled = "resolved"
    /\ outcome.value.metadata.generatedBy = "System Fallback"

\* C16: whatever the external call does (failure, plain text, a reply with a JSON
\* object of any subset of the fields), the report has title, summary, sections (each
\* with title, content and priority), recommendations, totalEstimatedCost and
\* estimatedTimeframe.
C16_ReportShape ==
    reportRan =>
        /\ outcome.settled = "resolved"
        /\ ReportFields \subseteq DOMAIN outcome.value
        /\ \A i \in DOMAIN outcome.value.sections :
              {"title", "content", "priority"} \subseteq DOMAIN outcome.value.sections[i]

\* the reply is the JSON object {"title": ...}, and the report has no sections
C16_FailingInput ==
    /\ reportRan
    /\ call.external = HttpOk([choices |-> << [message |->
            [role |-> "assistant", content |-> JsonText([f \in {"title"} |-> ReplyValue(f)])]] >>])
    /\ outcome.settled = "resolved"
    /\ "sections" \notin DOMAIN outcome.value
    /\ outcome.value.metadata.generatedBy = "OpenRouter AI"

\* C17: of the requests of one client ip within 15 minutes of the first request of its
\* window (the request that arrives exactly 15 minutes after it included), rateLimit
\* passes the first 100 on to the next handler and answers every further one with 429
\* without passing it on, whatever the other ips have sent.
C17_HundredPerWindow ==
    /\ \A ip \in DOMAIN requestLog :
          /\ requestLog[ip].passed <= 100
          /\ requestLog[ip].passed = IF requestLog[ip].seen < 100 THEN requestLog[ip].seen ELSE 100
    /\ call.operation = "rateLimit" =>
          IF requestLog[call.argument].seen > 100
          THEN response.status = 429 /\ outcome.status = "answered"
          ELSE outcome.status = "next" /\ response.status # 429

\* the busy client has had 100 requests passed on and a further one answered with 429,
\* and a request of the quiet client, in the same quarter of an hour, is passed on
C17_Witness ==
    /\ Clients \subseteq DOMAIN requestLog
    /\ requestLog[BusyClient].seen > 100
    /\ requestLog[BusyClient].passed = 100
    /\ call = [operation |-> "rateLimit", argument |-> QuietClient]
    /\ outcome.status = "next"
    /\ requestLog[QuietClient].opened >= requestLog[BusyClient].opened
    /\ now - requestLog[BusyClient].opened <= 15 * 60 * 1000

\* the 101st request of the window has been answered with 429
C17_WitnessLimited ==
    /\ call = [operation |-> "rateLimit", argument |-> BusyClient]
    /\ requestLog[BusyClient].seen = 101
    /\ response.status = 429

(***************************************************************************)
(* C21..C30                                                                *)
(***************************************************************************)

\* C21: for the example request of the API documentation, on the repository's catalog,
\* GEN-001 is in the general group with matchedByRule "RULE-002".
C21_DocumentedProvenance ==
    (returned /\ isRepositoryCatalog /\ businessProfile = DocumentedRequest) =>
        \E i \in DOMAIN outcome.value.requirements["general"] :
            /\ outcome.value.requirements["general"][i].requirementId = "GEN-001"
            /\ outcome.value.requirements["general"][i].matchedByRule = "RULE-002"

\* the example request is answered with GEN-001 under RULE-001
C21_FailingInput ==
    /\ returned
    /\ isRepositoryCatalog
    /\ businessProfile = DocumentedRequest
    /\ \E i \in DOMAIN outcome.value.requirements["general"] :
          /\ outcome.value.requirements["general"][i].requirementId = "GEN-001"
          /\ outcome.value.requirements["general"][i].matchedByRule = "RULE-001"

\* the condition evaluator has just answered for a rule condition
ruleConditionEvaluated == call.operation = "matchesRuleCondition"

\* C22: matchesRuleCondition returns true exactly when every clause present in the
\* condition holds: businessType equals the profile's, seatingCapacity and floorArea
\* lie within the inclusive min/max bounds that are present (a bound of 0 is present,
\* an absent bound does not constrain), every flag of hasService is true for the
\* profile; the empty condition holds for every profile.
C22_EveryPresentClause ==
    ruleConditionEvaluated =>
        /\ returned
        /\ outcome.value = ruleConditionHolds(call.profile, call.condition)
        /\ DOMAIN call.condition = {} => outcome.value

\* a rule whose seatingCapacity has max 0 is refused for a profile with one seat
C22_Witness ==
    /\ ruleConditionEvaluated
    /\ "seatingCapacity" \in DOMAIN call.condition
    /\ call.condition.seatingCapacity = [max |-> 0]
    /\ DOMAIN call.condition = {"seatingCapacity"}
    /\ call.profile.seatingCapacity = Num(1)
    /\ outcome = Returned(FALSE)

\* the empty condition is accepted
C22_WitnessEmpty ==
    /\ ruleConditionEvaluated
    /\ DOMAIN call.condition = {}
    /\ outcome = Returned(TRUE)

\* the condition evaluator has just answered for a requirement's own conditions
requirementConditionsEvaluated == call.operation = "matchesRequirementConditions"

\* the condition object the evaluator was given, << >> for a requirement without one
evaluatedCondition ==
    IF ruleConditionEvaluated THEN call.condition
    ELSE IF "conditions" \in DOMAIN call.requirement THEN call.requirement.conditions
    ELSE << >>

\* the flags its hasService / requiredServices clause names
namedFlags ==
    IF "hasService" \in DOMAIN evaluatedCondition
        THEN Range(evaluatedCondition.hasService)
    ELSE IF "requiredServices" \in DOMAIN evaluatedCondition
        THEN Range(evaluatedCondition.requiredServices)
    ELSE {}

\* the flag is true in at least one namespace the profile has
trueInSomeNamespace(profile, flag) ==
    \E namespace \in {profile.services, profile.kitchenFeatures, profile.operationalHours} :
        namespace.present /\ flag \in namespace.on

\* C23: the hasService clause of a rule and the requiredServices clause of a requirement
\* hold exactly when every flag they name is true in at least one of services,
\* kitchenFeatures, operationalHours; for a flag that is absent, or whose namespaces are
\* missing from the profile, the clause fails and nothing is thrown.
C23_FlagInSomeNamespace ==
    (ruleConditionEvaluated \/ requirementConditionsEvaluated) =>
        /\ returned
        /\ outcome.value => \A flag \in namedFlags : trueInSomeNamespace(call.profile, flag)
        /\ DOMAIN evaluatedCondition \subseteq {"hasService", "requiredServices"} =>
              (outcome.value <=> \A flag \in namedFlags : trueInSomeNamespace(call.profile, flag))

\* a requirement that asks for two flags is accepted for a profile without services
\* that has one flag in kitchenFeatures and the other in operationalHours
C23_Witness ==
    /\ requirementConditionsEvaluated
    /\ namedFlags = {"alcoholService", "gasUsage"}
    /\ ~call.profile.services.present
    /\ outcome = Returned(TRUE)

\* a rule that asks for a flag is refused for a profile without any namespace
C23_WitnessMissing ==
    /\ ruleConditionEvaluated
    /\ DOMAIN call.condition = {"hasService"}
    /\ namedFlags = {"alcoholService"}
    /\ ~call.profile.services.present
    /\ ~call.profile.kitchenFeatures.present
    /\ ~call.profile.operationalHours.present
    /\ outcome = Returned(FALSE)

\* the group a catalog record belongs to: the one of the catalog list that holds it
catalogCategory(id) ==
    LET lists == requirementsData.regulatoryRequirements
        ids(list) == {list[i].requirementId : i \in DOMAIN list}
    IN  CASE id \in ids(lists.generalRequirements) -> "general"
          [] id \in ids(lists.policeRequirements) -> "police"
          [] id \in ids(lists.healthMinistryRequirements) -> "health"
          [] id \in ids(lists.fireAuthorityRequirements) -> "fire"
          [] OTHER -> "none"

Least(S) == CHOOSE n \in S : \A m \in S : n <= m

\* where the matching discovers an id: the first rule that holds for the profile and
\* lists it, and the id's first position in that rule's applicableRequirements
discoveryRule(profile, id) == Least(selectingRules(profile, id))

discoveryPosition(profile, id) ==
    LET ids == catalogRules[discoveryRule(profile, id)].applicableRequirements
    IN  Least({q \in DOMAIN ids : ids[q] = id})

discoveredBefore(profile, a, b) ==
    \/ discoveryRule(profile, a) < discoveryRule(profile, b)
    \/ /\ discoveryRule(profile, a) = discoveryRule(profile, b)
       /\ discoveryPosition(profile, a) < discoveryPosition(profile, b)

\* C24: every requirement of a result is listed in exactly the group named by its
\* category, and each group is in discovery order: by the position of the first rule
\* that holds and lists the requirement, then by its position in that rule's list.
C24_GroupsInDiscoveryOrder ==
    returned =>
        \A c \in Categories :
            LET group == outcome.value.requirements[c] IN
            /\ \A i \in DOMAIN group :
                  /\ catalogCategory(group[i].requirementId) = c
                  /\ \A d \in Categories \ {c} :
                        \A j \in DOMAIN outcome.value.requirements[d] :
                            outcome.value.requirements[d][j].requirementId
                                # group[i].requirementId
            /\ \A i, j \in DOMAIN group :
                  i < j => discoveredBefore(businessProfile, group[i].requirementId,
                                            group[j].requirementId)

\* a group holds requirements that two different rules discovered, and at least
\* three groups are filled
C24_Witness ==
    /\ returned
    /\ \E c \in Categories :
          \E i, j \in DOMAIN outcome.value.requirements[c] :
              /\ i < j
              /\ outcome.value.requirements[c][i].matchedByRule
                    # outcome.value.requirements[c][j].matchedByRule
    /\ Cardinality({c \in Categories : outcome.value.requirements[c] # << >>}) >= 3

\* groupRequirementsByAuthority has just returned
groupingRan == call.operation = "groupRequirementsByAuthority"

\* the ids listed in one group of the grouped object
groupIds(c) == {outcome.value[c][i].requirementId : i \in DOMAIN outcome.value[c]}

C25_FailingInput ==
    /\ groupingRan
    /\ \E i \in DOMAIN call.requirements :
          /\ "category" \in DOMAIN call.requirements[i]
          /\ call.requirements[i].category = "municipal"
          /\ \A c \in Categories : call.requirements[i].requirementId \notin groupIds(c)

\* a requirement without category is in the general group
C25_MissingIsGeneral ==
    groupingRan =>
        \A i \in DOMAIN call.requirements :
            "category" \notin DOMAIN call.requirements[i] =>
                call.requirements[i].requirementId \in groupIds("general")

\* getRequirementDetails has just run on the engine
detailsRan == call.operation = "getRequirementDetails"

\* the positions, in the flattened catalog, of the other records of the authority of
\* the record at position p
sameAuthorityAs(p) ==
    {i \in DOMAIN getAllRequirements :
        /\ i # p
        /\ getAllRequirements[i].requirementId # getAllRequirements[p].requirementId
        /\ getAllRequirements[i].authority = getAllRequirements[p].authority}

\* C26: for every id of the catalog getRequirementDetails returns relatedRequirements
\* with at most three records, none of them the requested one, all of the requested
\* record's authority: the first such records in the flattened catalog order
\* general, police, health, fire.
C26_FirstThreeOfSameAuthority ==
    \A p \in DOMAIN getAllRequirements :
        (detailsRan /\ call.argument = getAllRequirements[p].requirementId) =>
            /\ returned
            /\ LET related == outcome.value.relatedRequirements
                   others == sameAuthorityAs(p)
               IN  /\ Len(related) <= 3
                   /\ Len(related) = IF Cardinality(others) < 3 THEN Cardinality(others) ELSE 3
                   /\ \A k \in DOMAIN related :
                         /\ related[k].requirementId # call.argument
                         /\ related[k].authority = outcome.value.authority
                         /\ \E i \in others :
                               /\ Cardinality({j \in others : j < i}) = k - 1
                               /\ related[k] = getAllRequirements[i]

\* details of a record that has more than three others of its authority: three are listed
C26_Witness ==
    /\ detailsRan
    /\ returned
    /\ Len(outcome.value.relatedRequirements) = 3
    /\ Cardinality({i \in DOMAIN getAllRequirements :
                        /\ getAllRequirements[i].authority = outcome.value.authority
                        /\ getAllRequirements[i].requirementId # call.argument}) > 3

\* the engine has just been asked for its recommendations
recommendationsRan == call.operation = "getBusinessRecommendations"

\* the notes the advisor is to emit for a profile, in their order
advisedNotes(profile) ==
    LET seats == profile.seatingCapacity.v
        area == profile.floorArea.v
        alcoholService == profile.services.present /\ "alcoholService" \in profile.services.on
        gasUsage == profile.kitchenFeatures.present /\ "gasUsage" \in profile.kitchenFeatures.on
        note(when, type, priority) ==
            IF when THEN << [type |-> type, priority |-> priority] >> ELSE << >>
    IN  note(seats > 50 \/ area > 200, "size_warning", "high")
            \o note(alcoholService, "alcohol_license", "high")
            \o note(gasUsage /\ area > 100, "fire_safety", "medium")

\* C27: getBusinessRecommendations depends on the profile alone and emits, in this
\* order, a high size_warning iff seatingCapacity > 50 or floorArea > 200, a high
\* alcohol_license iff services.alcoholService, a medium fire_safety iff
\* kitchenFeatures.gasUsage and floorArea > 100, and nothing else, whatever the
\* catalog is and whatever was matched before.
C27_AdvisorOfProfileAlone ==
    recommendationsRan =>
        /\ returned
        /\ outcome.value = advisedNotes(call.argument)

\* 50 seats on 100 m2 with gas and alcohol: the alcohol note only
C27_Witness ==
    /\ recommendationsRan
    /\ call.argument.seatingCapacity = Num(50)
    /\ call.argument.floorArea = Num(100)
    /\ flagOf(call.argument.kitchenFeatures, "gasUsage")
    /\ outcome = Returned(<< [type |-> "alcohol_license", priority |-> "high"] >>)

\* all three notes, in their order
C27_WitnessAll ==
    /\ recommendationsRan
    /\ Len(outcome.value) = 3

\* this step is a request of clientIp going through rateLimit
requestOf(clientIp) ==
    /\ requestCounts' # requestCounts
    /\ call'.operation = "rateLimit"
    /\ call'.argument = clientIp

\* C28: the first request of a client that arrives more than 15 minutes after the
\* first request of its window is admitted and opens a new window (count 1, window
\* start at its arrival), however many requests were refused before: a refused
\* request leaves the window start alone; and every admitted request carries
\* X-RateLimit-Remaining = max(0, 100 - count).
C28_NewWindowAfterFifteenMinutes ==
    [][\A clientIp \in Clients :
        requestOf(clientIp) =>
            /\ (clientIp \in DOMAIN requestLog
                    /\ now - requestLog[clientIp].opened > 15 * 60 * 1000) =>
                  /\ outcome'.status = "next"
                  /\ requestCounts'[clientIp] = [count |-> 1, firstRequest |-> now]
            /\ outcome'.status = "answered" =>
                  /\ clientIp \in DOMAIN requestCounts
                  /\ requestCounts'[clientIp].firstRequest = requestCounts[clientIp].firstRequest
                  /\ requestCounts'[clientIp].firstRequest = requestLog[clientIp].opened
            /\ outcome'.status = "next" =>
                  LET count == requestCounts'[clientIp].count IN
                  response'.headers.remaining = IF 100 - count > 0 THEN 100 - count ELSE 0]_vars

\* a client that was refused twice in its window has just been admitted to a new one
C28_Witness ==
    /\ call.operation = "rateLimit"
    /\ call.argument = BusyClient
    /\ outcome.status = "next"
    /\ requestLog[BusyClient].refusedBefore = 2
    /\ requestLog[BusyClient].seen = 1
    /\ requestCounts[BusyClient] = [count |-> 1, firstRequest |-> now]
    /\ now > 15 * 60 * 1000
    /\ response.headers.remaining = 99

\* typeof of an entry of a report's recommendations: a string is a JavaScript value of
\* type string, a note of the advisor is an object
typeOf(value) == IF "t" \in DOMAIN value THEN value.t ELSE "object"

\* POST /api/generate-report has just answered with a report
reportSent ==
    /\ call.operation = "POST /api/generate-report"
    /\ response.status = 200

\* C29: every entry of recommendations in the report that POST /api/generate-report
\* answers with is a string, whether the report comes from the reply's JSON, from a
\* plain-text reply or from the fallback, also when the route has attached the
\* advisor's notes to the MatchResult.
C29_RecommendationsAreStrings ==
    (reportSent /\ "recommendations" \in DOMAIN response.body.data.report) =>
        \A i \in DOMAIN response.body.data.report.recommendations :
            typeOf(response.body.data.report.recommendations[i]) = "string"

\* the external call fails, the profile serves alcohol: the fallback report's first
\* recommendation is the advisor's alcohol_license note, an object
C29_FailingInput ==
    /\ reportSent
    /\ flagOf(call.argument.services, "alcoholService")
    /\ response.body.data.report.metadata.generatedBy = "System Fallback"
    /\ response.body.data.rawRequirements.recommendations # << >>
    /\ typeOf(response.body.data.report.recommendations[1]) = "object"
    /\ response.body.data.report.recommendations[1].type = "alcohol_license"

\* the same on the plain-text path
C29_FailingInputPlainText ==
    /\ reportSent
    /\ response.body.data.report.metadata.generatedBy = "OpenRouter AI (Fallback)"
    /\ typeOf(response.body.data.report.recommendations[1]) = "object"

\* a reply whose JSON object carries its own list of strings is passed on as it is
C29_RepliedStrings ==
    (reportSent /\ response.body.data.report.metadata.generatedBy = "OpenRouter AI"
        /\ "recommendations" \in DOMAIN response.body.data.report) =>
        \A i \in DOMAIN response.body.data.report.recommendations :
            typeOf(response.body.data.report.recommendations[i]) = "string"

\* a questionnaire was submitted through an App component
submitted == call.operation = "handleQuestionnaireSubmit"

\* the capability flag of each characteristic of the form that has one
flagOfCharacteristic ==
    [alcohol_service |-> <<"services", "alcoholService">>,
     gas_usage |-> <<"kitchenFeatures", "gasUsage">>,
     meat_sales |-> <<"kitchenFeatures", "meatHandling">>,
     live_music |-> <<"services", "liveMusic">>,
     delivery_service |-> <<"services", "deliveryService">>,
     outdoor_seating |-> <<"services", "outdoorSeating">>,
     late_hours |-> <<"operationalHours", "lateNightOperation">>]

\* the flag of the characteristic is true in the profile
flagIsTrue(profile, characteristic) ==
    LET flag == flagOfCharacteristic[characteristic] IN
    flagOf(profile[flag[1]], flag[2])

\* the ticked characteristics that have a capability flag
tickedFlags == call.data.additionalCharacteristics \cap DOMAIN flagOfCharacteristic

\* C30: for every submission of the questionnaire through App, each ticked
\* characteristic is true as its capability flag in the profile that
\* validateBusinessProfile hands to findApplicableRequirements, and the derived
\* businessType is one of the backend's enum.
C30_TickedMeansFlagged ==
    submitted =>
        /\ Includes(validBusinessTypes, call.body.businessType)
        /\ outcome # NotCalled =>
              \A characteristic \in tickedFlags : flagIsTrue(call.argument, characteristic)

\* submitted through frontend/src/App.tsx with alcohol_service and gas_usage ticked:
\* the profile the engine is called with has neither flag
C30_FailingInput ==
    /\ submitted
    /\ call.app = "frontend/src/App.tsx"
    /\ call.data.additionalCharacteristics = {"alcohol_service", "gas_usage"}
    /\ call.body.servesAlcohol
    /\ outcome # NotCalled
    /\ response.status = 200
    /\ ~flagIsTrue(call.argument, "alcohol_service")
    /\ ~flagIsTrue(call.argument, "gas_usage")

\* through the App component that sends the backend's structure every ticked
\* characteristic arrives as its flag
C30_StructuredKeepsFlags ==
    (submitted /\ call.app # "frontend/src/App.tsx") =>
        /\ outcome # NotCalled
        /\ \A characteristic \in tickedFlags : flagIsTrue(call.argument, characteristic)

\* the derived businessType is in the enum for both components
C30_DerivedTypeInEnum ==
    submitted =>
        /\ Includes(validBusinessTypes, call.body.businessType)
        /\ outcome # NotCalled

====
